---- MODULE Spec2Model ----
(***************************************************************************)
(* Model of mysqlbeat (src/beater/mysqlbeat.go): the polling loop, the     *)
(* per-server query dispatcher, the event builders and the cache of old    *)
(* values used to turn counter columns into per-second rates.              *)
(*                                                                         *)
(* Encodings.                                                              *)
(*  - A Go string is a sequence of one-character strings:                  *)
(*    "42" is <<"4","2">>, "" is <<>>.                                     *)
(*  - A typed value is a record [t, n, d, s, m]: t is "Int", "Float" or    *)
(*    "String"; an Int holds its value in n (d = 1); a Float is a float64, *)
(*    the number d * m * 2^n of the sign d, the mantissa m of 53 bits and  *)
(*    the exponent n, or +Inf, -Inf or NaN, marked by d = 0; a String      *)
(*    holds its text in s (n = 0, d = 1).                                  *)
(*  - A time.Time is an integer number of seconds; a Duration likewise.    *)
(*  - A common.MapStr is a function from texts to values.                  *)
(***************************************************************************)
EXTENDS Integers, Sequences, FiniteSets, TLC

(***************************************************************************)
(* Texts: strings.HasSuffix, strings.Index, strings.Replace(.., 1).        *)
(***************************************************************************)

Drop(s, k) == SubSeq(s, k + 1, Len(s))

Take(s, k) == SubSeq(s, 1, k)

HasPrefix(s, p) == Len(p) <= Len(s) /\ Take(s, Len(p)) = p

HasSuffix(s, suf) == Len(suf) <= Len(s) /\ Drop(s, Len(s) - Len(suf)) = suf

\* Position (1-based) of the first occurrence of sub in s, 0 when absent.
Index(s, sub) ==
    LET hits == {i \in 1..(Len(s) - Len(sub) + 1) : SubSeq(s, i, i + Len(sub) - 1) = sub}
    IN IF hits = {} THEN 0 ELSE CHOOSE i \in hits : \A j \in hits : i <= j

\* strings.Replace(s, old, new, 1): the first occurrence of old becomes new.
Replace1(s, old, new) ==
    LET i == Index(s, old)
    IN IF i = 0 THEN s ELSE Take(s, i - 1) \o new \o Drop(s, i - 1 + Len(old))

(***************************************************************************)
(* Program constants.                                                      *)
(***************************************************************************)

deltaWildcard == <<"_", "_", "D", "E", "L", "T", "A">>

deltaKeyWildcard == <<"_", "_", "D", "E", "L", "T", "A", "K", "E", "Y">>

PerSecond == <<"_", "P", "E", "R", "S", "E", "C", "O", "N", "D">>

queryTypeSingleRow == "single-row"

queryTypeMultipleRows == "multiple-rows"

queryTypeTwoColumns == "two-columns"

queryTypeSlaveDelay == "show-slave-delay"

columnNameSlaveDelay ==
    <<"S", "e", "c", "o", "n", "d", "s", "_", "B", "e", "h", "i", "n", "d", "_",
      "M", "a", "s", "t", "e", "r">>

columnTypeString == "String"

columnTypeInt == "Int"

columnTypeFloat == "Float"

\* Names of the scaffolding fields of an event.
FieldTimestamp == <<"@", "t", "i", "m", "e", "s", "t", "a", "m", "p">>

FieldType == <<"t", "y", "p", "e">>

FieldHostname == <<"h", "o", "s", "t", "n", "a", "m", "e">>

\* The key both maps are created with in New.
InitKey == <<"m", "y", "s", "q", "l", "b", "e", "a", "t">>

(***************************************************************************)
(* Typed values.                                                           *)
(***************************************************************************)

IntVal(v) == [t |-> columnTypeInt, n |-> v, d |-> 1, s |-> <<>>, m |-> <<>>]

StringVal(txt) == [t |-> columnTypeString, n |-> 0, d |-> 1, s |-> txt, m |-> <<>>]

\* Values that are not cells: the event's timestamp, the query type tag,
\* and what a float operation yields when the divisor is zero.
TimeVal(tm) == [t |-> "Time", n |-> tm, d |-> 1, s |-> <<>>, m |-> <<>>]

TagVal(tag) == [t |-> "Tag", n |-> 0, d |-> 1, s |-> <<tag>>, m |-> <<>>]

Abs(x) == IF x < 0 THEN 0 - x ELSE x

RECURSIVE Pow2(_)
Pow2(k) == IF k = 0 THEN 1 ELSE 2 * Pow2(k - 1)

(***************************************************************************)
(* Natural numbers beyond the checker's integers: a sequence of limbs in   *)
(* base 2^15 = 32768, the least significant first, without a zero as the   *)
(* most significant limb; <<>> is 0.  The operators split the limbs in     *)
(* halves, so that their nesting grows with the logarithm of the length.   *)
(***************************************************************************)

Limb(a, i) == IF i <= Len(a) THEN a[i] ELSE 0

\* a without its most significant zero limbs.
BigTrim(a) ==
    IF \A i \in 1..Len(a) : a[i] = 0 THEN <<>>
    ELSE Take(a, CHOOSE i \in 1..Len(a) : a[i] # 0 /\ \A j \in (i + 1)..Len(a) : a[j] = 0)

RECURSIVE BigOf(_)
BigOf(k) == IF k = 0 THEN <<>> ELSE <<k % 32768>> \o BigOf(k \div 32768)

\* a < b.
BigLess(a, b) ==
    IF Len(a) # Len(b) THEN Len(a) < Len(b)
    ELSE \E i \in 1..Len(a) : a[i] < b[i] /\ \A j \in (i + 1)..Len(a) : a[j] = b[j]

\* The limbs lo..hi of a * k + b * sg + c, c the carry into limb lo, and
\* after them the carry out of limb hi; 0 < k <= 32768, sg is 1 or -1, and
\* a negative carry is a borrow.
RECURSIVE LinRange(_, _, _, _, _, _, _)
RECURSIVE LinJoin(_, _, _, _, _, _, _)
LinRange(a, k, b, sg, lo, hi, c) ==
    IF lo = hi
    THEN <<(Limb(a, lo) * k + Limb(b, lo) * sg + c) % 32768,
           (Limb(a, lo) * k + Limb(b, lo) * sg + c) \div 32768>>
    ELSE LinJoin(LinRange(a, k, b, sg, lo, (lo + hi) \div 2, c), a, k, b, sg,
                 (lo + hi) \div 2 + 1, hi)

LinJoin(low, a, k, b, sg, lo, hi) ==
    Take(low, Len(low) - 1) \o LinRange(a, k, b, sg, lo, hi, low[Len(low)])

\* a + b, a - b for a >= b, and a * k + c for 0 < k <= 32768, c < 32768.
BigAdd(a, b) ==
    IF a = <<>> THEN b
    ELSE IF b = <<>> THEN a
    ELSE BigTrim(LinRange(a, 1, b, 1, 1, IF Len(a) > Len(b) THEN Len(a) ELSE Len(b), 0))

BigSub(a, b) ==
    IF a = <<>> THEN <<>> ELSE BigTrim(LinRange(a, 1, b, 0 - 1, 1, Len(a), 0))

BigMul(a, k, c) ==
    IF a = <<>> THEN BigOf(c) ELSE BigTrim(LinRange(a, k, <<>>, 1, 1, Len(a), c))

\* The remainder of a by k, 0 < k <= 32768, and after it the limbs lo..hi
\* of the quotient, r the remainder of the limbs above hi.  The upper half
\* is computed first: its remainder goes into the lower half.
RECURSIVE DivRange(_, _, _, _, _)
RECURSIVE DivJoin(_, _, _, _, _)
DivRange(a, k, lo, hi, r) ==
    IF lo = hi THEN <<(r * 32768 + a[lo]) % k, (r * 32768 + a[lo]) \div k>>
    ELSE DivJoin(DivRange(a, k, (lo + hi) \div 2 + 1, hi, r), a, k, lo, (lo + hi) \div 2)

DivJoin(high, a, k, lo, hi) ==
    IF high = <<>> THEN <<>> ELSE DivRange(a, k, lo, hi, high[1]) \o Tail(high)

BigQuo(a, k) == IF a = <<>> THEN <<>> ELSE BigTrim(Tail(DivRange(a, k, 1, Len(a), 0)))

BigRem(a, k) == IF a = <<>> THEN 0 ELSE DivRange(a, k, 1, Len(a), 0)[1]

\* a * 2^k and the integer part of a / 2^k.
BigShl(a, k) ==
    IF a = <<>> THEN <<>> ELSE [i \in 1..(k \div 15) |-> 0] \o BigMul(a, Pow2(k % 15), 0)

BigShr(a, k) == BigQuo(Drop(a, k \div 15), Pow2(k % 15))

\* The number of bits of a, and bit k of a, bit 0 the lowest.
RECURSIVE IntBits(_)
IntBits(k) == IF k = 0 THEN 0 ELSE 1 + IntBits(k \div 2)

BigBits(a) == IF a = <<>> THEN 0 ELSE 15 * (Len(a) - 1) + IntBits(a[Len(a)])

BigBit(a, k) == (Limb(a, k \div 15 + 1) \div Pow2(k % 15)) % 2

RECURSIVE Pow10(_)
Pow10(k) == IF k = 0 THEN 1 ELSE 10 * Pow10(k - 1)

\* a * 10^j and the integer part of a / 10^j, four digits at a time.
RECURSIVE BigMulPow10(_, _)
BigMulPow10(a, j) ==
    IF a = <<>> THEN <<>>
    ELSE IF j <= 4 THEN BigMul(a, Pow10(j), 0)
    ELSE BigMulPow10(BigMulPow10(a, j \div 2), j - j \div 2)

RECURSIVE BigDivPow10(_, _)
BigDivPow10(a, j) ==
    IF a = <<>> THEN <<>>
    ELSE IF j <= 4 THEN BigQuo(a, Pow10(j))
    ELSE BigDivPow10(BigDivPow10(a, j \div 2), j - j \div 2)

(***************************************************************************)
(* float64.  A finite Float is the number d * m * 2^n: d is the sign, 1 or *)
(* -1, m the mantissa as a natural number in limbs, n the exponent of its  *)
(* lowest bit.  m has 53 bits, or fewer with n = -1074 (a subnormal        *)
(* number); zero is m = <<>> with n = -1074, and d tells +0 from -0.       *)
(* d = 0 marks +Inf (n = 1), -Inf (n = -1) and NaN (n = 0).                *)
(***************************************************************************)

Float64(neg, m, e) ==
    [t |-> columnTypeFloat, n |-> e, d |-> IF neg THEN 0 - 1 ELSE 1, s |-> <<>>, m |-> m]

\* +Inf, the float64 quotient of a positive number by zero, and the other
\* float64 values that are no finite number.
PosInf == [t |-> columnTypeFloat, n |-> 1, d |-> 0, s |-> <<>>, m |-> <<>>]

NegInf == [t |-> columnTypeFloat, n |-> 0 - 1, d |-> 0, s |-> <<>>, m |-> <<>>]

NaN == [t |-> columnTypeFloat, n |-> 0, d |-> 0, s |-> <<>>, m |-> <<>>]

\* The float64 of the mantissa m of 54 bits at most and the exponent el of
\* its lowest bit, after rounding: 2^53 takes the next exponent, and a
\* value from 2^1024 on is an infinity.
Packed(neg, m, el) ==
    IF m = <<>> THEN Float64(neg, <<>>, 0 - 1074)
    ELSE IF el + BigBits(m) > 1024 THEN IF neg THEN NegInf ELSE PosInf
    ELSE IF BigBits(m) = 54 THEN Float64(neg, BigShr(m, 1), el + 1)
    ELSE Float64(neg, m, el)

\* The float64 nearest to q * 2^(el - sh), or to a little more when sticky,
\* with el the exponent of the lowest bit of the result: the bits of q
\* below sh are rounded off, a tie goes to the even mantissa.
RoundAt(neg, q, sh, el, sticky) ==
    IF sh <= 0 THEN Packed(neg, BigShl(q, 0 - sh), el)
    ELSE IF /\ BigBit(q, sh - 1) = 1
            /\ \/ sticky
               \/ BigBit(q, sh) = 1
               \/ BigShl(BigShr(q, sh - 1), sh - 1) # q
    THEN Packed(neg, BigAdd(BigShr(q, sh), <<1>>), el)
    ELSE Packed(neg, BigShr(q, sh), el)

\* The exponent of the lowest bit of the float64 of a number of the given
\* count of bits whose lowest bit has the exponent e.
LowExp(bits, e) == IF e + bits - 53 > 0 - 1074 THEN e + bits - 53 ELSE 0 - 1074

\* The float64 nearest to q * 2^e (a little more when sticky; q then has
\* 55 bits at least).
Round64(neg, q, e, sticky) ==
    RoundAt(neg, q, LowExp(BigBits(q), e) - e, LowExp(BigBits(q), e), sticky)

\* The float64 nearest to the rational num/den, |den| <= 32768; den = 0
\* gives +Inf, -Inf or NaN by the sign of num, and 0/-1 is the negative zero.
FloatVal(num, den) ==
    IF den = 0 THEN IF num > 0 THEN PosInf ELSE IF num < 0 THEN NegInf ELSE NaN
    ELSE IF num = 0 THEN Float64(den < 0, <<>>, 0 - 1074)
    ELSE Round64((num < 0) # (den < 0), BigQuo(BigShl(BigOf(Abs(num)), 70), Abs(den)),
                 0 - 70, BigRem(BigShl(BigOf(Abs(num)), 70), Abs(den)) # 0)

(***************************************************************************)
(* strconv.ParseInt(s, 0, 64) and strconv.ParseFloat(s, 64), as the        *)
(* strconv of Go 1.13 and later reads them: base prefixes 0b, 0o, 0x and   *)
(* a leading 0, underscores between digits, exponents, hexadecimal floats, *)
(* "inf", "infinity" and "nan", and the range errors.                      *)
(*                                                                         *)
(* Syntax and the decimal range are decided on the digits.  The value of   *)
(* a float is the float64 nearest to the number the text denotes, a tie    *)
(* going to the even mantissa.  The value of an int is computed in the     *)
(* checker's integers, which hold magnitudes below 2^31.                   *)
(***************************************************************************)

Digits == <<"0", "1", "2", "3", "4", "5", "6", "7", "8", "9">>

LowerHex == <<"a", "b", "c", "d", "e", "f">>

UpperHex == <<"A", "B", "C", "D", "E", "F">>

\* The digit value of a character, -1 for a character that is none.
DigitOf(c) ==
    IF \E i \in 1..10 : Digits[i] = c
    THEN (CHOOSE i \in 1..10 : Digits[i] = c) - 1
    ELSE IF \E i \in 1..6 : LowerHex[i] = c
    THEN (CHOOSE i \in 1..6 : LowerHex[i] = c) + 9
    ELSE IF \E i \in 1..6 : UpperHex[i] = c
    THEN (CHOOSE i \in 1..6 : UpperHex[i] = c) + 9
    ELSE 0 - 1

UpperLetters ==
    <<"A", "B", "C", "D", "E", "F", "G", "H", "I", "J", "K", "L", "M",
      "N", "O", "P", "Q", "R", "S", "T", "U", "V", "W", "X", "Y", "Z">>

LowerLetters ==
    <<"a", "b", "c", "d", "e", "f", "g", "h", "i", "j", "k", "l", "m",
      "n", "o", "p", "q", "r", "s", "t", "u", "v", "w", "x", "y", "z">>

\* lower(c): an upper-case letter in lower case, a lower-case letter itself.
Lower(c) ==
    IF \E i \in 1..26 : UpperLetters[i] = c
    THEN LowerLetters[CHOOSE i \in 1..26 : UpperLetters[i] = c]
    ELSE c

\* The text after an optional leading sign.
Unsigned(s) == IF s # <<>> /\ s[1] \in {"+", "-"} THEN Tail(s) ELSE s

\* The text without the underscores the parsers skip over.
NoUnderscores(s) == SelectSeq(s, LAMBDA c : c # "_")

HasUnderscore(s) == \E i \in 1..Len(s) : s[i] = "_"

\* The scan of underscoreOK from position i on: saw is "0" after a digit,
\* "_" after an underscore, "!" after any other character, "^" at the start.
RECURSIVE UnderscoreScan(_, _, _, _)
UnderscoreScan(s, i, saw, hex) ==
    IF i > Len(s) THEN saw # "_"
    ELSE IF DigitOf(s[i]) \in 0..9 \/ (hex /\ DigitOf(s[i]) \in 10..15)
    THEN UnderscoreScan(s, i + 1, "0", hex)
    ELSE IF s[i] = "_" THEN saw = "0" /\ UnderscoreScan(s, i + 1, "_", hex)
    ELSE saw # "_" /\ UnderscoreScan(s, i + 1, "!", hex)

\* underscoreOK(s): after an optional sign, every underscore stands
\* between two digits or between a base prefix and a digit.
underscoreOK(s) ==
    IF /\ Len(Unsigned(s)) >= 2
       /\ Unsigned(s)[1] = "0"
       /\ Lower(Unsigned(s)[2]) \in {"b", "o", "x"}
    THEN UnderscoreScan(Unsigned(s), 3, "0", Lower(Unsigned(s)[2]) = "x")
    ELSE UnderscoreScan(Unsigned(s), 1, "^", FALSE)

\* The value of the digit string s in the given base from the accumulator
\* acc on, -1 when a character is no digit of that base.
RECURSIVE ParseDigits(_, _, _)
ParseDigits(s, base, acc) ==
    IF s = <<>> THEN acc
    ELSE IF DigitOf(Head(s)) \notin 0..(base - 1) THEN 0 - 1
    ELSE ParseDigits(Tail(s), base, acc * base + DigitOf(Head(s)))

\* Are all characters of s digits of the base?
AllDigits(s, base) == \A i \in 1..Len(s) : DigitOf(s[i]) \in 0..(base - 1)

\* Base 0: the base the prefix of a non-empty s selects, and the digits
\* after the prefix.  A prefix needs a character after it; a lone leading 0
\* selects base 8.
HasLetterPrefix(s, letter) == Len(s) >= 3 /\ s[1] = "0" /\ Lower(s[2]) = letter

UintBase(s) ==
    IF s[1] # "0" THEN 10
    ELSE IF HasLetterPrefix(s, "b") THEN 2
    ELSE IF HasLetterPrefix(s, "o") THEN 8
    ELSE IF HasLetterPrefix(s, "x") THEN 16
    ELSE 8

UintBody(s) ==
    IF s[1] # "0" THEN s
    ELSE IF HasLetterPrefix(s, "b") \/ HasLetterPrefix(s, "o") \/ HasLetterPrefix(s, "x")
    THEN Drop(s, 2)
    ELSE Drop(s, 1)

\* The digit values of a digit string without its leading zeros.
RECURSIVE StripZeros(_)
StripZeros(ds) == IF ds # <<>> /\ Head(ds) = "0" THEN StripZeros(Tail(ds)) ELSE ds

Significant(ds) == [i \in 1..Len(StripZeros(ds)) |-> DigitOf(StripZeros(ds)[i])]

\* Is the number of digit values a greater than that of b, of equal length?
RECURSIVE LexGreater(_, _)
LexGreater(a, b) ==
    /\ a # <<>>
    /\ \/ Head(a) > Head(b)
       \/ Head(a) = Head(b) /\ LexGreater(Tail(a), Tail(b))

\* Is the number of digit values a (no leading zero) greater than lim?
Exceeds(a, lim) == Len(a) > Len(lim) \/ (Len(a) = Len(lim) /\ LexGreater(a, lim))

\* The digits of 2^64 - 1, of 2^63 - 1 and of 2^63 in the bases of base 0.
MaxUint64Digits(base) ==
    IF base = 2 THEN [i \in 1..64 |-> 1]
    ELSE IF base = 8 THEN <<1>> \o [i \in 1..21 |-> 7]
    ELSE IF base = 16 THEN [i \in 1..16 |-> 15]
    ELSE <<1, 8, 4, 4, 6, 7, 4, 4, 0, 7, 3, 7, 0, 9, 5, 5, 1, 6, 1, 5>>

MaxInt64Digits(base) ==
    IF base = 2 THEN [i \in 1..63 |-> 1]
    ELSE IF base = 8 THEN [i \in 1..21 |-> 7]
    ELSE IF base = 16 THEN <<7>> \o [i \in 1..15 |-> 15]
    ELSE <<9, 2, 2, 3, 3, 7, 2, 0, 3, 6, 8, 5, 4, 7, 7, 5, 8, 0, 7>>

MinInt64Digits(base) ==
    IF base = 2 THEN <<1>> \o [i \in 1..63 |-> 0]
    ELSE IF base = 8 THEN <<1>> \o [i \in 1..21 |-> 0]
    ELSE IF base = 16 THEN <<8>> \o [i \in 1..15 |-> 0]
    ELSE <<9, 2, 2, 3, 3, 7, 2, 0, 3, 6, 8, 5, 4, 7, 7, 5, 8, 0, 8>>

\* Does ParseUint accept the text: not empty, digits of the base,
\* underscores in their places, a value within 64 bits?
UintOk(s) ==
    /\ s # <<>>
    /\ AllDigits(NoUnderscores(UintBody(s)), UintBase(s))
    /\ HasUnderscore(s) => underscoreOK(s)
    /\ ~Exceeds(Significant(NoUnderscores(UintBody(s))), MaxUint64Digits(UintBase(s)))

\* strconv.ParseUint(s, 0, 64): the base comes from the prefix; -1 for a
\* syntax or range error.
ParseUint(s) ==
    IF UintOk(s) THEN ParseDigits(NoUnderscores(UintBody(s)), UintBase(s), 0)
    ELSE 0 - 1

\* The int64 of a sign and a ParseUint result un (-1 for an error).
SignedInt(neg, un) ==
    IF un < 0 THEN [ok |-> FALSE, v |-> 0]
    ELSE [ok |-> TRUE, v |-> IF neg THEN 0 - un ELSE un]

\* Is the magnitude that ParseUint read from u within the int64 range, up
\* to 2^63 - 1, and up to 2^63 after a minus sign?
IntInRange(neg, u) ==
    ~Exceeds(Significant(NoUnderscores(UintBody(u))),
             IF neg THEN MinInt64Digits(UintBase(u)) ELSE MaxInt64Digits(UintBase(u)))

\* Does ParseInt accept the text: no syntax error, no range error?
IntOk(s) == s # <<>> /\ UintOk(Unsigned(s)) /\ IntInRange(s[1] = "-", Unsigned(s))

\* strconv.ParseInt(s, 0, 64): [ok, v], ok = FALSE for a syntax or range
\* error.
ParseInt(s) ==
    IF IntOk(s) THEN SignedInt(s[1] = "-", ParseUint(Unsigned(s)))
    ELSE [ok |-> FALSE, v |-> 0]

\* What the text of a float is read as before its value is computed: ok
\* tells whether it is accepted; kind is "nan", "inf", "zero", "dec" (the
\* digits sig times 10^e) or "hex" (the hexadecimal digits sig times 2^e).
Form(kind, neg, sig, e) == [ok |-> TRUE, kind |-> kind, neg |-> neg, sig |-> sig, e |-> e]

NoForm == [ok |-> FALSE, kind |-> "none", neg |-> FALSE, sig |-> <<>>, e |-> 0]

\* Does s match the word w, whatever the case of its letters?
EqualFold(s, w) == Len(s) = Len(w) /\ \A i \in 1..Len(s) : Lower(s[i]) = w[i]

\* special: "nan", and "inf" or "infinity" after an optional sign.
special(s) ==
    IF EqualFold(s, <<"n", "a", "n">>) THEN Form("nan", FALSE, <<>>, 0)
    ELSE IF \/ EqualFold(Unsigned(s), <<"i", "n", "f">>)
            \/ EqualFold(Unsigned(s), <<"i", "n", "f", "i", "n", "i", "t", "y">>)
    THEN Form("inf", s[1] = "-", <<>>, 0)
    ELSE NoForm

\* The decimal digits of 2^1024 - 2^970, half-way between the largest
\* float64 and 2^1024: a value from there on rounds out of range.
MaxFloat64Border ==
    <<1, 7, 9, 7, 6, 9, 3, 1, 3, 4, 8, 6, 2, 3, 1, 5, 8, 0, 7, 9, 3, 7, 2, 8, 9, 7, 1, 4, 0, 5,
       3, 0, 3, 4, 1, 5, 0, 7, 9, 9, 3, 4, 1, 3, 2, 7, 1, 0, 0, 3, 7, 8, 2, 6, 9, 3, 6, 1, 7, 3,
       7, 7, 8, 9, 8, 0, 4, 4, 4, 9, 6, 8, 2, 9, 2, 7, 6, 4, 7, 5, 0, 9, 4, 6, 6, 4, 9, 0, 1, 7,
       9, 7, 7, 5, 8, 7, 2, 0, 7, 0, 9, 6, 3, 3, 0, 2, 8, 6, 4, 1, 6, 6, 9, 2, 8, 8, 7, 9, 1, 0,
       9, 4, 6, 5, 5, 5, 5, 4, 7, 8, 5, 1, 9, 4, 0, 4, 0, 2, 6, 3, 0, 6, 5, 7, 4, 8, 8, 6, 7, 1,
       5, 0, 5, 8, 2, 0, 6, 8, 1, 9, 0, 8, 9, 0, 2, 0, 0, 0, 7, 0, 8, 3, 8, 3, 6, 7, 6, 2, 7, 3,
       8, 5, 4, 8, 4, 5, 8, 1, 7, 7, 1, 1, 5, 3, 1, 7, 6, 4, 4, 7, 5, 7, 3, 0, 2, 7, 0, 0, 6, 9,
       8, 5, 5, 5, 7, 1, 3, 6, 6, 9, 5, 9, 6, 2, 2, 8, 4, 2, 9, 1, 4, 8, 1, 9, 8, 6, 0, 8, 3, 4,
       9, 3, 6, 4, 7, 5, 2, 9, 2, 7, 1, 9, 0, 7, 4, 1, 6, 8, 4, 4, 4, 3, 6, 5, 5, 1, 0, 7, 0, 4,
       3, 4, 2, 7, 1, 1, 5, 5, 9, 6, 9, 9, 5, 0, 8, 0, 9, 3, 0, 4, 2, 8, 8, 0, 1, 7, 7, 9, 0, 4,
       1, 7, 4, 4, 9, 7, 7, 9, 2>>

\* Is the number 0.a of the digit values a at least 0.b?
RECURSIVE AtLeast(_, _)
AtLeast(a, b) ==
    IF b = <<>> THEN TRUE
    ELSE IF a = <<>> THEN \A i \in 1..Len(b) : b[i] = 0
    ELSE IF Head(a) # Head(b) THEN Head(a) > Head(b)
    ELSE AtLeast(Tail(a), Tail(b))

\* The natural number of the digits s in the base, after acc (<<0>> is no
\* natural number in limbs: the test makes the value of acc be computed
\* before the next digit is read).
RECURSIVE BigDigits(_, _, _)
BigDigits(s, base, acc) ==
    IF s = <<>> \/ acc = <<0>> THEN acc
    ELSE BigDigits(Tail(s), base, BigMul(acc, base, DigitOf(Head(s))))

\* The float64 nearest to q * 10^e10: for a negative e10 the quotient of
\* q * 2^k by 10^(-e10) is rounded, its remainder being the sticky bit.
DecValue(neg, q, e10) ==
    IF e10 >= 0 THEN Round64(neg, BigMulPow10(q, e10), 0, FALSE)
    ELSE Round64(neg, BigDivPow10(BigShl(q, 56 - 4 * e10), 0 - e10), 4 * e10 - 56,
                 BigMulPow10(BigDivPow10(BigShl(q, 56 - 4 * e10), 0 - e10), 0 - e10)
                     # BigShl(q, 56 - 4 * e10))

\* The decimal float of the significant digits sig (not empty) and the
\* power of ten e10: a range error from the border on, zero below half the
\* smallest float64.
DecFloat(neg, sig, e10) ==
    IF Len(sig) + e10 > 309 \/ (Len(sig) + e10 = 309 /\ AtLeast(Significant(sig), MaxFloat64Border))
    THEN NoForm
    ELSE IF Len(sig) + e10 <= 0 - 324 THEN Form("zero", neg, <<>>, 0)
    ELSE Form("dec", neg, sig, e10)

\* The number of bits of a hexadecimal digit value from 1 to 15.
BitsOf(v) == IF v >= 8 THEN 4 ELSE IF v >= 4 THEN 3 ELSE IF v >= 2 THEN 2 ELSE 1

\* The hexadecimal float of the significant digits sig (not empty) and the
\* power of two e2: a range error when the value is, or rounds to, 2^1024
\* or more; zero when it rounds to zero.
HexFloat(neg, sig, e2) ==
    IF 4 * (Len(sig) - 1) + BitsOf(DigitOf(sig[1])) + e2 > 1024 THEN NoForm
    ELSE IF 4 * (Len(sig) - 1) + BitsOf(DigitOf(sig[1])) + e2 < 0 - 1075
    THEN Form("zero", neg, <<>>, 0)
    ELSE IF Round64(neg, BigDigits(sig, 16, <<>>), e2, FALSE).d = 0 THEN NoForm
    ELSE IF Round64(neg, BigDigits(sig, 16, <<>>), e2, FALSE).m = <<>>
    THEN Form("zero", neg, <<>>, 0)
    ELSE Form("hex", neg, sig, e2)

\* The float of the mantissa digits ds, of which the last f stand after the
\* point, and the exponent exp.
FloatFrom(neg, ds, f, exp, hex) ==
    IF StripZeros(ds) = <<>> THEN Form("zero", neg, <<>>, 0)
    ELSE IF hex THEN HexFloat(neg, StripZeros(ds), exp - 4 * f)
    ELSE DecFloat(neg, StripZeros(ds), exp - f)

\* The digits of body before position dot (all of them when dot = 0) and after.
IntPart(body, dot) == IF dot = 0 THEN body ELSE Take(body, dot - 1)

FracPart(body, dot) == IF dot = 0 THEN <<>> ELSE Drop(body, dot)

\* The float of the mantissa text m with its point at position dot (0 for
\* none) and the exponent exp.
FloatOf(neg, m, dot, exp, hex) ==
    FloatFrom(neg, IntPart(m, dot) \o FracPart(m, dot), Len(FracPart(m, dot)), exp, hex)

\* Where the mantissa loop of readFloat stops in t from position i on: at
\* a second point, or at a character that is no digit, point or underscore.
RECURSIVE MantEnd(_, _, _, _)
MantEnd(t, i, hex, sawdot) ==
    IF i > Len(t) THEN i
    ELSE IF t[i] = "_" THEN MantEnd(t, i + 1, hex, sawdot)
    ELSE IF t[i] = "." THEN IF sawdot THEN i ELSE MantEnd(t, i + 1, hex, TRUE)
    ELSE IF DigitOf(t[i]) \in 0..9 \/ (hex /\ DigitOf(t[i]) \in 10..15)
    THEN MantEnd(t, i + 1, hex, sawdot)
    ELSE i

\* The exponent digits xs after the sign: a digit first, then digits and
\* underscores to the end of the text.
ExpOk(xs) ==
    /\ xs # <<>>
    /\ DigitOf(xs[1]) \in 0..9
    /\ \A i \in 1..Len(xs) : xs[i] = "_" \/ DigitOf(xs[i]) \in 0..9

\* The exponent read from digits: it stops growing at 10000.
RECURSIVE ExpValue(_, _)
ExpValue(xs, acc) ==
    IF xs = <<>> THEN acc
    ELSE ExpValue(Tail(xs), IF acc < 10000 THEN acc * 10 + DigitOf(Head(xs)) ELSE acc)

\* The float of the mantissa text m (no underscores) and of what follows
\* it in the text: nothing, which a hexadecimal float does not allow, or
\* the exponent letter and the exponent.
ReadExponent(neg, m, rest, hex) ==
    IF rest = <<>> THEN IF hex THEN NoForm ELSE FloatOf(neg, m, Index(m, <<".">>), 0, hex)
    ELSE IF Lower(rest[1]) # (IF hex THEN "p" ELSE "e") THEN NoForm
    ELSE IF ~ExpOk(Unsigned(Tail(rest))) THEN NoForm
    ELSE FloatOf(neg, m, Index(m, <<".">>),
                 (IF rest[2] = "-" THEN 0 - 1 ELSE 1)
                     * ExpValue(NoUnderscores(Unsigned(Tail(rest))), 0),
                 hex)

\* The float of the text t after the sign, whose mantissa runs from
\* position st to position e - 1: it needs one digit at least.
ReadMantissa(neg, t, st, e, hex) ==
    IF ~\E i \in st..(e - 1) : DigitOf(t[i]) \in 0..15
    THEN NoForm
    ELSE ReadExponent(neg, NoUnderscores(SubSeq(t, st, e - 1)), Drop(t, e - 1), hex)

\* readFloat and the conversion on the text t after the sign; the whole
\* text has to be read.  The prefix 0x with a character after it makes a
\* hexadecimal float.
ReadFloat(neg, t) ==
    IF HasUnderscore(t) /\ ~underscoreOK(t) THEN NoForm
    ELSE IF Len(t) > 2 /\ t[1] = "0" /\ Lower(t[2]) = "x" THEN ReadMantissa(neg, t, 3, MantEnd(t, 3, TRUE, FALSE), TRUE)
    ELSE ReadMantissa(neg, t, 1, MantEnd(t, 1, FALSE, FALSE), FALSE)

\* What ParseFloat reads the text as.
FloatForm(s) ==
    IF s = <<>> THEN NoForm
    ELSE IF special(s).ok THEN special(s)
    ELSE ReadFloat(s[1] = "-", Unsigned(s))

\* The float64 of a form that was accepted.
FloatValue(p) ==
    IF p.kind = "nan" THEN NaN
    ELSE IF p.kind = "inf" THEN IF p.neg THEN NegInf ELSE PosInf
    ELSE IF p.kind = "zero" THEN Float64(p.neg, <<>>, 0 - 1074)
    ELSE IF p.kind = "hex" THEN Round64(p.neg, BigDigits(p.sig, 16, <<>>), p.e, FALSE)
    ELSE DecValue(p.neg, BigDigits(p.sig, 10, <<>>), p.e)

\* strconv.ParseFloat(s, 64): [ok, f], ok = FALSE for a syntax or range
\* error, f the float64.
ParseFloat(s) ==
    IF FloatForm(s).ok THEN [ok |-> TRUE, f |-> FloatValue(FloatForm(s))]
    ELSE [ok |-> FALSE, f |-> FloatVal(0, 1)]

\* The column type the two parse attempts settle on, given their results:
\* an int64 that parsed stays an int, a float counts only for what is still
\* a string.
TypeOf(pInt, pFloat) ==
    IF pInt.ok THEN columnTypeInt
    ELSE IF pFloat.ok THEN columnTypeFloat
    ELSE columnTypeString

strColType(strColValue) == TypeOf([ok |-> IntOk(strColValue)], FloatForm(strColValue))

\* The value of the cell in the variable its type selects: nColValue,
\* fColValue or strColValue.
TypedOf(strColValue, pInt, pFloat) ==
    IF pInt.ok THEN IntVal(pInt.v)
    ELSE IF pFloat.ok THEN pFloat.f
    ELSE StringVal(strColValue)

ColValue(strColValue) == TypedOf(strColValue, ParseInt(strColValue), ParseFloat(strColValue))

(***************************************************************************)
(* roundF2I and the rate computations.                                     *)
(***************************************************************************)

\* The integer part of num/den truncated toward zero (den > 0), as math.Modf.
Trunc(num, den) == IF num >= 0 THEN num \div den ELSE 0 - ((0 - num) \div den)

\* math.Floor and math.Ceil of num/den (den > 0).
Floor(num, den) == num \div den

Ceil(num, den) == 0 - ((0 - num) \div den)

\* roundF2I as it would be if the conversion truncated instead of rounding.
roundF2I_Floor(num, den) == Floor(num, den)

\* roundF2I(val, .5) for val = num/den (den > 0): the fractional part that
\* math.Modf returns carries the sign of val; it is compared with roundOn.
roundF2I(num, den) ==
    IF 2 * (num - den * Trunc(num, den)) >= den THEN Ceil(num, den) ELSE Floor(num, den)

(***************************************************************************)
(* The event builders.                                                     *)
(***************************************************************************)

\* m[k] = v on a common.MapStr.
Put(m, k, v) == [x \in (DOMAIN m) \cup {k} |-> IF x = k THEN v ELSE m[x]]

\* A nil common.MapStr.
NoEvent == <<>>

\* What the age map holds under InitKey: the string "init", not a time.Time.
NotATime == 0 - 1

\* int64(+Inf) is implementation-dependent: the smallest int64 on amd64, the
\* largest on arm64.  Neither fits the checker's integers; d = 0 marks them.
OutOfRangeInt(which) == [t |-> columnTypeInt, n |-> 0, d |-> 0, s |-> <<which>>, m |-> <<>>]

UndefOutcomes == {"MinInt64", "MaxInt64"}

\* |a| < |b| for finite floats: by the exponent, then by the mantissa.
MagLess(a, b) == a.n < b.n \/ (a.n = b.n /\ BigLess(a.m, b.m))

\* a > b on float64: false when either is NaN; the two zeros are equal.
FloatGreater(a, b) ==
    IF a = NaN \/ b = NaN THEN FALSE
    ELSE IF a.d = 0 THEN a = PosInf /\ b # PosInf
    ELSE IF b.d = 0 THEN b = NegInf
    ELSE IF a.d = 1 THEN IF b.d = 1 THEN MagLess(b, a) ELSE a.m # <<>> \/ b.m # <<>>
    ELSE b.d # 1 /\ MagLess(a, b)

\* The mantissa of the finite float x at the exponent e0 <= x.n.
Aligned(x, e0) == BigShl(x.m, x.n - e0)

\* a - b for finite a > b, e0 the lower of the two exponents: the exact
\* difference, rounded.
SubAt(a, b, e0) ==
    IF a.d # b.d THEN Round64(FALSE, BigAdd(Aligned(a, e0), Aligned(b, e0)), e0, FALSE)
    ELSE IF a.d = 1
    THEN Round64(FALSE, BigSub(Aligned(a, e0), Aligned(b, e0)), e0, FALSE)
    ELSE Round64(FALSE, BigSub(Aligned(b, e0), Aligned(a, e0)), e0, FALSE)

\* a - b on float64 for a > b: +Inf when either is infinite.
FloatSub(a, b) ==
    IF a.d = 0 \/ b.d = 0 THEN PosInf
    ELSE SubAt(a, b, IF a.n < b.n THEN a.n ELSE b.n)

\* x / float64(delta) on float64 for x > 0 and a whole count of seconds
\* delta, |delta| < 32768: +Inf for delta = 0, of the sign of delta else.
FloatQuo(x, delta) ==
    IF delta = 0 THEN PosInf
    ELSE IF x.d = 0 THEN IF delta < 0 THEN NegInf ELSE PosInf
    ELSE Round64(delta < 0, BigQuo(BigShl(x.m, 70), Abs(delta)), x.n - 70,
                 BigRem(BigShl(x.m, 70), Abs(delta)) # 0)

\* The cached value as the type assertion .(int64) yields it: 0 when the
\* cached value is no int64.
OldInt(old) == IF old.t = columnTypeInt THEN old.n ELSE 0

\* The cached value as the type assertion .(float64) yields it.
OldFloat(old) == IF old.t = columnTypeFloat THEN old ELSE FloatVal(0, 1)

\* calcVal of the int64 branch: oldVal is the cached value, delta the seconds
\* between the cached age and rowAge, u the outcome of int64(+Inf).
IntCalc(nColValue, oldVal, delta, u) ==
    IF nColValue > oldVal
    THEN IF delta = 0 THEN OutOfRangeInt(u)
         ELSE IF delta > 0 THEN IntVal(roundF2I(nColValue - oldVal, delta))
         ELSE IntVal(roundF2I(oldVal - nColValue, 0 - delta))
    ELSE IntVal(0)

IntRate(nColValue, old, delta, u) == IntCalc(nColValue, OldInt(old), delta, u)

\* calcVal of the float64 branch, f the current value as a Float.
FloatCalc(f, oldVal, delta) ==
    IF FloatGreater(f, oldVal)
    THEN FloatQuo(FloatSub(f, oldVal), delta)
    ELSE FloatVal(0, 1)

FloatRate(f, old, delta) == FloatCalc(f, OldFloat(old), delta)

\* DeltaRate as it would be if the old value were saved only in the branch
\* that computes a rate, not when the reset guard yields 0.
DeltaRate_KeepOnReset(st, strKey, strEventColName, cur, old, delta, rowAge, u) ==
    IF cur.t = columnTypeInt
    THEN [event |-> Put(st.event, strEventColName, IntRate(cur.n, old, delta, u)),
          oldValues |-> IF cur.n > OldInt(old) THEN Put(st.oldValues, strKey, cur) ELSE st.oldValues,
          oldValuesAge |-> IF cur.n > OldInt(old) THEN Put(st.oldValuesAge, strKey, rowAge)
                           ELSE st.oldValuesAge]
    ELSE IF cur.t = columnTypeFloat
    THEN [event |-> Put(st.event, strEventColName, FloatRate(cur, old, delta)),
          oldValues |-> IF FloatRate(cur, old, delta) # FloatVal(0, 1)
                        THEN Put(st.oldValues, strKey, cur) ELSE st.oldValues,
          oldValuesAge |-> IF FloatRate(cur, old, delta) # FloatVal(0, 1)
                           THEN Put(st.oldValuesAge, strKey, rowAge) ELSE st.oldValuesAge]
    ELSE [st EXCEPT !.event = Put(@, strEventColName, cur)]

\* The branch of a delta column whose key has an older value and an age:
\* cur is the typed current value, old the cached one, delta the elapsed
\* seconds.
DeltaRate(st, strKey, strEventColName, cur, old, delta, rowAge, u) ==
    IF cur.t = columnTypeInt
    THEN [event |-> Put(st.event, strEventColName, IntRate(cur.n, old, delta, u)),
          oldValues |-> Put(st.oldValues, strKey, cur),
          oldValuesAge |-> Put(st.oldValuesAge, strKey, rowAge)]
    ELSE IF cur.t = columnTypeFloat
    THEN [event |-> Put(st.event, strEventColName, FloatRate(cur, old, delta)),
          oldValues |-> Put(st.oldValues, strKey, cur),
          oldValuesAge |-> Put(st.oldValuesAge, strKey, rowAge)]
    ELSE [st EXCEPT !.event = Put(@, strEventColName, cur)]

\* DeltaTyped as it would be if the first sighting put the raw value into
\* the event besides saving it.
DeltaTyped_ColdEmit(st, strKey, strEventColName, cur, rowAge, u) ==
    IF strKey \notin DOMAIN st.oldValues
    THEN [event |-> Put(st.event, strEventColName, cur),
          oldValues |-> Put(st.oldValues, strKey, cur),
          oldValuesAge |-> Put(st.oldValuesAge, strKey, rowAge)]
    ELSE IF strKey \in DOMAIN st.oldValuesAge /\ st.oldValuesAge[strKey] # NotATime
    THEN DeltaRate(st, strKey, strEventColName, cur, st.oldValues[strKey],
                   rowAge - st.oldValuesAge[strKey], rowAge, u)
    ELSE st

\* The treatment of a delta column whose typed value is cur.
DeltaTyped(st, strKey, strEventColName, cur, rowAge, u) ==
    IF strKey \notin DOMAIN st.oldValues
    THEN [st EXCEPT !.oldValuesAge = Put(@, strKey, rowAge),
                    !.oldValues = Put(@, strKey, cur)]
    ELSE IF strKey \in DOMAIN st.oldValuesAge /\ st.oldValuesAge[strKey] # NotATime
    THEN DeltaRate(st, strKey, strEventColName, cur, st.oldValues[strKey],
                   rowAge - st.oldValuesAge[strKey], rowAge, u)
    ELSE st

\* The treatment of a delta column, the same statements in
\* generateEventFromRow and in appendRowToEvent: st = [event, oldValues,
\* oldValuesAge] before, the result after.
DeltaColumn(st, strKey, strEventColName, strColValue, rowAge, u) ==
    DeltaTyped(st, strKey, strEventColName, ColValue(strColValue), rowAge, u)

\* A column that is no delta column: the value goes to the event as it is.
PlainColumn(st, strEventColName, strColValue) ==
    [st EXCEPT !.event = Put(@, strEventColName, ColValue(strColValue))]

\* keyFound as it would be if the missing key were not detected.
keyFound_Always(columns) == TRUE

\* Does one of the columns carry the delta key wildcard?
keyFound(columns) == \E i \in 1..Len(columns) : HasSuffix(columns[i], deltaKeyWildcard)

\* getKeyFromRow as it would be if the key columns' values were left out.
getKeyFromRow_NoValues(values, columns) == <<>>

\* getKeyFromRow: the values of the delta key columns, concatenated in
\* column order (the error is keyFound being false).
RECURSIVE getKeyFromRow(_, _)
getKeyFromRow(values, columns) ==
    IF columns = <<>> THEN <<>>
    ELSE (IF HasSuffix(Head(columns), deltaKeyWildcard) THEN Head(values) ELSE <<>>)
         \o getKeyFromRow(Tail(values), Tail(columns))

\* The name a column gets in the event.
EventColName(strColName) ==
    IF HasSuffix(strColName, deltaKeyWildcard) THEN Replace1(strColName, deltaKeyWildcard, <<>>)
    ELSE IF HasSuffix(strColName, deltaWildcard) THEN Replace1(strColName, deltaWildcard, PerSecond)
    ELSE strColName

\* Is column strColName of a query of this type treated as a delta column?
IsDeltaColumn(queryType, strColName) ==
    /\ queryType \in {queryTypeSingleRow, queryTypeMultipleRows}
    /\ HasSuffix(strColName, deltaWildcard)

\* st, a [event, oldValues, oldValuesAge], with the error e.
WithErr(st, e) ==
    [event |-> st.event, oldValues |-> st.oldValues, oldValuesAge |-> st.oldValuesAge, err |-> e]

\* The loop body of generateEventFromRow for the column strColName holding
\* strColValue; st carries err, which once set ends the loop.
RowCell(st, values, columns, queryType, rowAge, u, strColName, strColValue) ==
    IF st.err # "" THEN st
    ELSE IF queryType = queryTypeSlaveDelay /\ strColName # columnNameSlaveDelay THEN st
    ELSE IF ~IsDeltaColumn(queryType, strColName)
    THEN WithErr(PlainColumn(st, EventColName(strColName), strColValue), "")
    ELSE IF queryType = queryTypeMultipleRows /\ ~keyFound(columns) THEN [st EXCEPT !.err = "key"]
    ELSE WithErr(DeltaColumn(st,
                             IF queryType = queryTypeSingleRow THEN strColName
                             ELSE getKeyFromRow(values, columns) \o strColName,
                             EventColName(strColName), strColValue, rowAge, u), "")

RowColumn(st, values, columns, queryType, rowAge, u, i) ==
    RowCell(st, values, columns, queryType, rowAge, u, columns[i], values[i])

\* The loop of generateEventFromRow over all the columns, from st0 on.
RowColumns(st0, values, columns, queryType, rowAge, u) ==
    LET after[i \in 0..Len(columns)] ==
            IF i = 0 THEN st0
            ELSE RowColumn(after[i - 1], values, columns, queryType, rowAge, u, i)
    IN after[Len(columns)]

\* The event generateEventFromRow starts from.
NewRowEvent(queryType, rowAge) ==
    Put(Put(NoEvent, FieldTimestamp, TimeVal(rowAge)), FieldType, TagVal(queryType))

\* RowResult as it would be without the test for an event with no data.
RowResult_NoSuppress(st) ==
    IF st.err # "" THEN [st EXCEPT !.event = NoEvent] ELSE st

\* What generateEventFromRow returns when the loop over the columns left st.
RowResult(st) ==
    IF st.err # "" THEN [st EXCEPT !.event = NoEvent]
    ELSE IF Cardinality(DOMAIN st.event) = 2 THEN [st EXCEPT !.event = NoEvent]
    ELSE st

\* generateEventFromRow for the row [vals, scanErr] against the two maps:
\* [event, err, oldValues, oldValuesAge], event = NoEvent for nil and err = ""
\* for nil.
generateEventFromRow(ov, age, row, columns, queryType, rowAge, u) ==
    IF row.scanErr
    THEN [event |-> NoEvent, oldValues |-> ov, oldValuesAge |-> age, err |-> "scan"]
    ELSE RowResult(RowColumns([event |-> NewRowEvent(queryType, rowAge), oldValues |-> ov,
                               oldValuesAge |-> age, err |-> ""],
                              row.vals, columns, queryType, rowAge, u))

\* AppendCell as it would be if the name went into the event as it is.
AppendCell_RawName(st, strColName, strColValue, rowAge, u) ==
    IF HasSuffix(strColName, deltaWildcard)
    THEN DeltaColumn(st, strColName, strColName, strColValue, rowAge, u)
    ELSE PlainColumn(st, strColName, strColValue)

\* appendRowToEvent past row.Scan, for the row (strColName, strColValue).
AppendCell(st, strColName, strColValue, rowAge, u) ==
    IF HasSuffix(strColName, deltaWildcard)
    THEN DeltaColumn(st, strColName, Replace1(strColName, deltaWildcard, PerSecond),
                     strColValue, rowAge, u)
    ELSE PlainColumn(st, Replace1(strColName, deltaWildcard, PerSecond), strColValue)

\* appendRowToEvent: the row is (name, value); [event, err, oldValues,
\* oldValuesAge] after it.
appendRowToEvent(event, ov, age, row, rowAge, u) ==
    IF row.scanErr
    THEN [event |-> event, oldValues |-> ov, oldValuesAge |-> age, err |-> "scan"]
    ELSE WithErr(AppendCell([event |-> event, oldValues |-> ov, oldValuesAge |-> age],
                            row.vals[1], row.vals[2], rowAge, u), "")

(***************************************************************************)
(* Bounds and inputs of the model.                                         *)
(***************************************************************************)

\* Polling cycles Run starts.
MaxCycles == 2

\* Rows a result set holds at most.
MaxRows == 3

\* Seconds time.Now() advances by, at most, from one query to the next.
MaxAdvance == 2

\* Column names of the configured queries.
ColA == <<"a">> \o deltaWildcard

ColB == <<"b">>

ColK == <<"k">> \o deltaKeyWildcard

\* Texts the cells of the result sets hold.
Three == <<"3">>

Eight == <<"8">>

OneAndHalf == <<"1", ".", "5">>

Up == <<"u", "p">>

KeyX == <<"x">>

KeyY == <<"y">>

\* A configured query and, as Data, what its table can hold: Data[i] is the
\* set of texts column i of a row can come back with.
Query(type, cols, data) == [QueryType |-> type, Columns |-> cols, Data |-> data]

ServerOne == <<"s", "1">>

ServerTwo == <<"s", "2">>

\* The configurations the model starts from: server name -> its queries.
Configs ==
    { [n \in {ServerOne} |->
         << Query(queryTypeSlaveDelay, <<columnNameSlaveDelay, ColB>>, <<{Three, <<>>}, {Up}>>),
            Query(queryTypeSingleRow, <<ColA, ColB>>, <<{Three, Eight}, {Up}>>) >>],
      [n \in {ServerOne} |->
         << Query(queryTypeMultipleRows, <<ColK, ColA>>, <<{KeyX, KeyY}, {Three, Eight}>>) >>],
      [n \in {ServerOne} |->
         << Query(queryTypeMultipleRows, <<ColA, ColB>>, <<{Three, Eight}, {Up}>>) >>],
      [n \in {ServerOne} |->
         << Query(queryTypeTwoColumns, <<<<"n">>, <<"v">>>>, <<{ColA, ColB}, {Three, OneAndHalf, Up}>>) >>],
      [n \in {ServerOne, ServerTwo} |->
         << Query(queryTypeSingleRow, <<ColA>>, <<{Three, Eight}>>) >>],
      [n \in {ServerOne} |->
         << Query(queryTypeSingleRow, <<FieldHostname>>, <<{Up}>>) >>] }

\* A row row.Scan fails on: its values are never looked at.
ScanErrRow == [vals |-> <<>>, scanErr |-> TRUE]

\* The value tuples of the rows whose column i holds a text of data[i].
RECURSIVE RowVals(_)
RowVals(data) ==
    IF data = <<>> THEN {<<>>}
    ELSE {<<h>> \o t : h \in Head(data), t \in RowVals(Tail(data))}

\* The rows a query can return: [vals, scanErr].
RowsOf(qry) == {[vals |-> v, scanErr |-> FALSE] : v \in RowVals(qry.Data)} \cup {ScanErrRow}

NoServer == <<>>

NoRow == [vals |-> <<>>, scanErr |-> FALSE]

(***************************************************************************)
(* State.                                                                  *)
(***************************************************************************)

VARIABLES
    config,          \* bt.config.Servers
    oldValues,       \* bt.oldValues
    oldValuesAge,    \* bt.oldValuesAge
    stop,            \* Stop: "idle", "closed" (client closed), "done" (done closed)
    pc,              \* where Run is
    cycle,           \* polling cycles started
    clock,           \* the last reading of time.Now()
    pending,         \* servers beat has yet to range over in this cycle
    server,          \* server_name of process_server
    index,           \* position in params.Queries (from 1)
    failedAt,        \* index of the query process_server returned an error on, else 0
    dtNow,           \* dtNow of the query
    nRows,           \* rows in the result set
    rowsRead,        \* rows rows.Next() has handed out
    row,             \* the row scanned last
    twoColumnEvent,  \* twoColumnEvent
    event,           \* event of the last generateEventFromRow
    err,             \* err of the last generateEventFromRow / appendRowToEvent
    sent,            \* PublishEvent calls of the last step of this query execution
    nSent,           \* number of PublishEvent calls of this query execution
    logged,          \* logp.Err calls of this query execution
    call,            \* a call of one of the pure functions: its name and arguments
    result           \* what that call returned

vars == <<config, oldValues, oldValuesAge, stop, pc, cycle, clock, pending, server, index,
          failedAt, dtNow, nRows, rowsRead, row, twoColumnEvent, event, err, sent, nSent,
          logged, call, result>>

cacheVars == <<oldValues, oldValuesAge>>

rowVars == <<dtNow, nRows, rowsRead, row, twoColumnEvent, event, err, sent, nSent, logged>>

Queries == config[server]

query == Queries[index]

\* No call of a pure function, and no result yet.
NoCall == [f |-> "", num |-> 0, den |-> 1, text |-> <<>>, values |-> <<>>, columns |-> <<>>]

NoResult == [done |-> FALSE, v |-> 0]

\* New: both maps start with one entry, "mysqlbeat" -> "init".
New ==
    /\ config \in Configs
    /\ oldValues = [k \in {InitKey} |-> StringVal(<<"i", "n", "i", "t">>)]
    /\ oldValuesAge = [k \in {InitKey} |-> NotATime]
    /\ stop = "idle"
    /\ pc = "new"
    /\ cycle = 0
    /\ clock = 0
    /\ pending = {}
    /\ server = NoServer
    /\ index = 0
    /\ failedAt = 0
    /\ dtNow = 0
    /\ nRows = 0
    /\ rowsRead = 0
    /\ row = NoRow
    /\ twoColumnEvent = NoEvent
    /\ event = NoEvent
    /\ err = ""
    /\ sent = <<>>
    /\ nSent = 0
    /\ logged = <<>>

\* The program after New; no pure function is called apart from it.
Init ==
    /\ New
    /\ call = NoCall
    /\ result = NoResult

(***************************************************************************)
(* Run, beat and Stop.                                                     *)
(***************************************************************************)

\* Run up to the loop: the client is connected, the ticker started.
RunStart ==
    /\ pc = "new"
    /\ pc' = "select"
    /\ UNCHANGED <<call, result, config, oldValues, oldValuesAge, stop, cycle, clock, pending, server, index,
                   failedAt, dtNow, nRows, rowsRead, row, twoColumnEvent, event, err, sent, nSent, logged>>

\* Tick as it would be if the cache were set up anew for every cycle.
Tick_ResetCache ==
    /\ pc = "select"
    /\ cycle < MaxCycles
    /\ pc' = "servers"
    /\ cycle' = cycle + 1
    /\ pending' = DOMAIN config
    /\ oldValues' = [k \in {InitKey} |-> oldValues[InitKey]]
    /\ oldValuesAge' = [k \in {InitKey} |-> NotATime]
    /\ UNCHANGED <<call, result, config, stop, clock, server, index,
                   failedAt, dtNow, nRows, rowsRead, row, twoColumnEvent, event, err, sent, nSent, logged>>

\* select takes the ticker's case: beat starts to range over the servers.
Tick ==
    /\ pc = "select"
    /\ cycle < MaxCycles
    /\ pc' = "servers"
    /\ cycle' = cycle + 1
    /\ pending' = DOMAIN config
    /\ UNCHANGED <<call, result, config, oldValues, oldValuesAge, stop, clock, server, index,
                   failedAt, dtNow, nRows, rowsRead, row, twoColumnEvent, event, err, sent, nSent, logged>>

\* select takes the done case: Run returns.
Return ==
    /\ pc = "select"
    /\ stop = "done"
    /\ pc' = "returned"
    /\ UNCHANGED <<call, result, config, oldValues, oldValuesAge, stop, cycle, clock, pending, server, index,
                   failedAt, dtNow, nRows, rowsRead, row, twoColumnEvent, event, err, sent, nSent, logged>>

\* Stop before Run has connected: bt.client is still the nil interface, the
\* call bt.client.Close() panics and the program ends; done is not closed.
StopBeforeRun ==
    /\ pc = "new"
    /\ stop = "idle"
    /\ pc' = "panicked"
    /\ UNCHANGED <<call, result, config, oldValues, oldValuesAge, stop, cycle, clock, pending, server, index,
                   failedAt, dtNow, nRows, rowsRead, row, twoColumnEvent, event, err, sent, nSent, logged>>

\* Stop called again after Stop has ended: close(bt.done) on the closed
\* channel panics and the program ends.
StopAgain ==
    /\ pc \notin {"new", "panicked"}
    /\ stop = "done"
    /\ pc' = "panicked"
    /\ UNCHANGED <<call, result, config, oldValues, oldValuesAge, stop, cycle, clock, pending, server, index,
                   failedAt, dtNow, nRows, rowsRead, row, twoColumnEvent, event, err, sent, nSent, logged>>

\* Stop, first statement: bt.client.Close().
StopClose ==
    /\ pc \notin {"new", "panicked"}
    /\ stop = "idle"
    /\ stop' = "closed"
    /\ UNCHANGED <<call, result, config, oldValues, oldValuesAge, pc, cycle, clock, pending, server, index,
                   failedAt, dtNow, nRows, rowsRead, row, twoColumnEvent, event, err, sent, nSent, logged>>

\* Stop, second statement: close(bt.done).
StopDone ==
    /\ pc # "panicked"
    /\ stop = "closed"
    /\ stop' = "done"
    /\ UNCHANGED <<call, result, config, oldValues, oldValuesAge, pc, cycle, clock, pending, server, index,
                   failedAt, dtNow, nRows, rowsRead, row, twoColumnEvent, event, err, sent, nSent, logged>>

\* StartServer as it would be if every server had a cache of its own.
StartServer_OwnCache ==
    /\ pc = "servers"
    /\ \E s \in pending :
         /\ server' = s
         /\ pending' = pending \ {s}
    /\ index' = 1
    /\ failedAt' = 0
    /\ twoColumnEvent' = NoEvent
    /\ pc' = "queries"
    /\ oldValues' = [k \in {InitKey} |-> oldValues[InitKey]]
    /\ oldValuesAge' = [k \in {InitKey} |-> NotATime]
    /\ UNCHANGED <<call, result, config, stop, cycle, clock,
                   dtNow, nRows, rowsRead, row, event, err, sent, nSent, logged>>

\* beat takes the next server (a Go map ranges in no fixed order) and
\* process_server opens its database.
StartServer ==
    /\ pc = "servers"
    /\ \E s \in pending :
         /\ server' = s
         /\ pending' = pending \ {s}
    /\ index' = 1
    /\ failedAt' = 0
    /\ twoColumnEvent' = NoEvent
    /\ pc' = "queries"
    /\ UNCHANGED <<call, result, config, oldValues, oldValuesAge, stop, cycle, clock,
                   dtNow, nRows, rowsRead, row, event, err, sent, nSent, logged>>

\* beat has ranged over every server: "Finished tick".
EndBeat ==
    /\ pc = "servers"
    /\ pending = {}
    /\ pc' = "select"
    /\ UNCHANGED <<call, result, config, oldValues, oldValuesAge, stop, cycle, clock, pending, server, index,
                   failedAt, dtNow, nRows, rowsRead, row, twoColumnEvent, event, err, sent, nSent, logged>>

(***************************************************************************)
(* process_server.                                                         *)
(***************************************************************************)

\* The variables of process_server's loops as they are when it is not running.
RowVarsReset ==
    /\ dtNow' = 0
    /\ nRows' = 0
    /\ rowsRead' = 0
    /\ row' = NoRow
    /\ twoColumnEvent' = NoEvent
    /\ event' = NoEvent
    /\ err' = ""
    /\ sent' = <<>>
    /\ nSent' = 0
    /\ logged' = <<>>

\* The call bt.client.PublishEvent(e) as sent records it; closed tells
\* whether Stop had closed the client by then.
Publish(e) == <<[event |-> e, closed |-> stop # "idle"]>>

\* The two-columns event as it is created for a query.
NewTwoColumnEvent(tm, name) ==
    Put(Put(Put(NoEvent, FieldTimestamp, TimeVal(tm)), FieldType, TagVal(queryTypeTwoColumns)),
        FieldHostname, StringVal(name))

\* db.Query and rows.Columns succeed: the query has a result set.
ExecQuery ==
    /\ pc = "queries"
    /\ index <= Len(Queries)
    /\ \E d \in 1..MaxAdvance :
         /\ clock' = clock + d
         /\ dtNow' = clock + d
         /\ twoColumnEvent' = IF query.QueryType = queryTypeTwoColumns
                              THEN NewTwoColumnEvent(clock + d, server)
                              ELSE twoColumnEvent
    /\ nRows' \in 0..MaxRows
    /\ rowsRead' = 0
    /\ row' = NoRow
    /\ event' = NoEvent
    /\ err' = ""
    /\ sent' = <<>>
    /\ nSent' = 0
    /\ logged' = <<>>
    /\ pc' = "rows"
    /\ UNCHANGED <<call, result, config, oldValues, oldValuesAge, stop, cycle, pending, server, index, failedAt>>

\* QueryError as it would be if the loop went on with the next query.
QueryError_Continue ==
    /\ pc = "queries"
    /\ index <= Len(Queries)
    /\ failedAt' = index
    /\ index' = index + 1
    /\ UNCHANGED <<call, result, config, oldValues, oldValuesAge, stop, pc, cycle, clock, pending, server,
                   dtNow, nRows, rowsRead, row, twoColumnEvent, event, err, sent, nSent, logged>>

\* db.Query or rows.Columns fails: process_server returns the error and
\* beat logs it.
QueryError ==
    /\ pc = "queries"
    /\ index <= Len(Queries)
    /\ failedAt' = index
    /\ pc' = "servers"
    /\ RowVarsReset
    /\ UNCHANGED <<call, result, config, oldValues, oldValuesAge, stop, cycle, clock, pending, server, index>>

\* The loop over the queries is over: process_server returns nil.
ServerDone ==
    /\ pc = "queries"
    /\ index > Len(Queries)
    /\ pc' = "servers"
    /\ RowVarsReset
    /\ UNCHANGED <<call, result, config, oldValues, oldValuesAge, stop, cycle, clock, pending, server, index,
                   failedAt>>

\* What LoopRows does with r, the result of generateEventFromRow.
RowHandled(r) ==
    /\ oldValues' = r.oldValues
    /\ oldValuesAge' = r.oldValuesAge
    /\ event' = r.event
    /\ err' = r.err
    /\ logged' = IF r.err # "" THEN Append(logged, <<"row", index>>) ELSE logged
    /\ sent' = IF r.err = "" /\ r.event # NoEvent
               THEN Publish(Put(r.event, FieldHostname, StringVal(server))) ELSE <<>>
    /\ nSent' = IF r.err = "" /\ r.event # NoEvent THEN nSent + 1 ELSE nSent
    /\ UNCHANGED twoColumnEvent

\* RowSingleDone as it would be if the loop moved to the next row.
RowSingleDone_Continue(r) ==
    /\ RowHandled(r)
    /\ pc' = "rows"

\* One pass of LoopRows for a single-row or show-slave-delay query: the
\* loop is left after the row.
RowSingleDone(r) ==
    /\ RowHandled(r)
    /\ pc' = "endquery"

RowSingle(rw, u) ==
    /\ query.QueryType \in {queryTypeSingleRow, queryTypeSlaveDelay}
    /\ RowSingleDone(generateEventFromRow(oldValues, oldValuesAge, rw, query.Columns,
                                          query.QueryType, dtNow, u))

\* RowMultipleDone as it would be if a failing row did not leave the loop.
RowMultipleDone_Continue(r) ==
    /\ RowHandled(r)
    /\ pc' = "rows"

\* One pass of LoopRows for a multiple-rows query: an error leaves the loop.
RowMultipleDone(r) ==
    /\ RowHandled(r)
    /\ pc' = IF r.err # "" THEN "endquery" ELSE "rows"

RowMultiple(rw, u) ==
    /\ query.QueryType = queryTypeMultipleRows
    /\ RowMultipleDone(generateEventFromRow(oldValues, oldValuesAge, rw, query.Columns,
                                            query.QueryType, dtNow, u))

\* One pass of LoopRows for a two-columns query: an error leaves the loop.
RowTwoColumnsDone(r) ==
    /\ oldValues' = r.oldValues
    /\ oldValuesAge' = r.oldValuesAge
    /\ twoColumnEvent' = r.event
    /\ err' = r.err
    /\ logged' = IF r.err # "" THEN Append(logged, <<"append", index>>) ELSE logged
    /\ pc' = IF r.err # "" THEN "endquery" ELSE "rows"
    /\ sent' = <<>>
    /\ UNCHANGED <<event, nSent>>

RowTwoColumns(rw, u) ==
    /\ query.QueryType = queryTypeTwoColumns
    /\ RowTwoColumnsDone(appendRowToEvent(twoColumnEvent, oldValues, oldValuesAge, rw, dtNow, u))

\* rows.Next() hands out a row and the switch on the query type handles it.
ProcessRow ==
    /\ pc = "rows"
    /\ rowsRead < nRows
    /\ \E rw \in RowsOf(query), u \in UndefOutcomes :
         /\ row' = rw
         /\ \/ RowSingle(rw, u)
            \/ RowMultiple(rw, u)
            \/ RowTwoColumns(rw, u)
    /\ rowsRead' = rowsRead + 1
    /\ UNCHANGED <<call, result, config, stop, cycle, clock, pending, server, index, failedAt, dtNow, nRows>>

\* HasData as it would be if the hostname were not counted.
HasData_OffByOne(ev) == Cardinality(DOMAIN ev) > 2

\* The two-columns event has data: len(twoColumnEvent) > 3.
HasData(ev) == Cardinality(DOMAIN ev) > 3

\* After LoopRows: the two-columns event is published if it has data, the
\* rows are closed, rows.Err() is logged (rowsErr) and the next query is up.
EndQuery ==
    /\ pc = "endquery" \/ (pc = "rows" /\ rowsRead = nRows)
    /\ \E rowsErr \in BOOLEAN :
         LET publish == query.QueryType = queryTypeTwoColumns /\ HasData(twoColumnEvent)
         IN /\ sent' = IF publish THEN Publish(twoColumnEvent) ELSE <<>>
            /\ nSent' = IF publish THEN nSent + 1 ELSE nSent
            /\ twoColumnEvent' = IF publish THEN NoEvent ELSE twoColumnEvent
            /\ logged' = IF rowsErr THEN Append(logged, <<"rows.Err", index>>) ELSE logged
    /\ index' = index + 1
    /\ pc' = "queries"
    /\ UNCHANGED <<call, result, config, oldValues, oldValuesAge, stop, cycle, clock, pending, server,
                   failedAt, dtNow, nRows, rowsRead, row, event, err>>

Next ==
    \/ RunStart
    \/ Tick
    \/ Return
    \/ StopBeforeRun
    \/ StopAgain
    \/ StopClose
    \/ StopDone
    \/ StartServer
    \/ EndBeat
    \/ ExecQuery
    \/ QueryError
    \/ ServerDone
    \/ ProcessRow
    \/ EndQuery

Spec == Init /\ [][Next]_vars

(***************************************************************************)
(* The pure functions, called on their own: roundF2I, the typing of a      *)
(* cell (the two strconv parses) and getKeyFromRow.                        *)
(***************************************************************************)

\* Numerators and denominators of the quotients roundF2I is called on.
MaxNum == 12

MaxDen == 4

\* Length of the cell texts that are typed.
MaxText == 3

Quotient(n, d) == [NoCall EXCEPT !.f = "roundF2I", !.num = n, !.den = d]

RoundCalls ==
    {Quotient(n, d) : n \in (0 - MaxNum)..MaxNum, d \in 1..MaxDen} \cup {Quotient(549, 100)}

\* The characters of the cell texts.
Alphabet == {"0", "1", "8", "-", ".", "x", "f", "e", "_"}

\* The texts over Alphabet of length k at most.
RECURSIVE TextsUpTo(_)
TextsUpTo(k) ==
    IF k = 0 THEN {<<>>}
    ELSE TextsUpTo(k - 1) \cup {Append(t, c) : t \in TextsUpTo(k - 1), c \in Alphabet}

Cell(t) == [NoCall EXCEPT !.f = "ColValue", !.text = t]

\* Longer texts: the special floats, a negative exponent, a hexadecimal
\* float, underscores and the binary and octal prefixes.
LongTexts ==
    {<<"i", "n", "f">>, <<"-", "i", "n", "f">>, <<"+", "I", "n", "f">>,
     <<"i", "n", "f", "i", "n", "i", "t", "y">>, <<"n", "a", "n">>, <<"N", "a", "N">>,
     <<"+", "n", "a", "n">>, <<"1", "e", "-", "2">>, <<"1", ".", "5", "e", "1">>,
     <<"0", "x", "1", "p", "-", "2">>, <<"0", "x", "1", ".", "8", "p", "1">>,
     <<"1", "_", "0", "0", "0">>, <<"1", "_", "0", ".", "5">>, <<"0", "b", "1", "_", "0">>,
     <<"0", "o", "1", "7">>, <<"-", "0", ".", "0">>, <<"1", "e", "4", "0", "0">>,
     <<"1", "e", "-", "4", "0", "0">>}

TypingCalls == {Cell(t) : t \in TextsUpTo(MaxText) \cup LongTexts}

\* Two key columns and a delta column, and the values of the key columns.
KeyColumns == <<<<"p">> \o deltaKeyWildcard, <<"q">> \o deltaKeyWildcard, ColA>>

KeyTexts == {<<"a">>, <<"a", "b">>, <<"b">>, <<"b", "c">>, <<"c">>}

KeyOf(v1, v2) ==
    [NoCall EXCEPT !.f = "getKeyFromRow", !.values = <<v1, v2, Three>>, !.columns = KeyColumns]

KeyCalls == {KeyOf(v1, v2) : v1 \in KeyTexts, v2 \in KeyTexts}

Calls == RoundCalls \cup TypingCalls \cup KeyCalls

FnInit ==
    /\ New
    /\ call \in Calls
    /\ result = NoResult

Returns(v) ==
    /\ ~result.done
    /\ result' = [done |-> TRUE, v |-> v]
    /\ UNCHANGED <<config, oldValues, oldValuesAge, stop, pc, cycle, clock, pending, server,
                   index, failedAt, dtNow, nRows, rowsRead, row, twoColumnEvent, event, err,
                   sent, nSent, logged, call>>

CallRoundF2I ==
    /\ call.f = "roundF2I"
    /\ Returns(roundF2I(call.num, call.den))

\* The parse attempts and the choice of the typed value for one cell.
CallColValue ==
    /\ call.f = "ColValue"
    /\ Returns(ColValue(call.text))

CallGetKeyFromRow ==
    /\ call.f = "getKeyFromRow"
    /\ Returns(getKeyFromRow(call.values, call.columns))

FnNext ==
    \/ CallRoundF2I
    \/ CallColValue
    \/ CallGetKeyFromRow

FnSpec == FnInit /\ [][FnNext]_vars

(***************************************************************************)
(* Vocabulary of the properties.                                           *)
(***************************************************************************)

\* LoopRows of query `index` is running or has just been left.
InQuery == pc \in {"rows", "endquery"}

\* The step is one pass of LoopRows.
RowStep == pc = "rows" /\ rowsRead' = rowsRead + 1

\* The step is what follows LoopRows.
EndStep == InQuery /\ pc' = "queries"

IsRowShape(queryType) ==
    queryType \in {queryTypeSingleRow, queryTypeMultipleRows, queryTypeSlaveDelay}

\* The fields of an event besides timestamp, type and hostname.
DataFields(e) == DOMAIN e \ {FieldTimestamp, FieldType, FieldHostname}

\* The age map holds a time under k.
HasTime(k) == k \in DOMAIN oldValuesAge /\ oldValuesAge[k] # NotATime

HasKeyColumn(cols) == \E i \in 1..Len(cols) : HasSuffix(cols[i], deltaKeyWildcard)

DeltaIndexes(cols) == {i \in 1..Len(cols) : HasSuffix(cols[i], deltaWildcard)}

\* The values of the key-marked columns of a row, one after the other.
RECURSIVE KeyText(_, _)
KeyText(vals, cols) ==
    IF cols = <<>> THEN <<>>
    ELSE (IF HasSuffix(Head(cols), deltaKeyWildcard) THEN Head(vals) ELSE <<>>)
         \o KeyText(Tail(vals), Tail(cols))

\* The field a delta-marked name is emitted under.
RateField(name) == Replace1(name, deltaWildcard, PerSecond)

\* The delta observations a scanned row of qry makes: the MetricKey, the
\* event field and the text observed.
Observations(qry, vals) ==
    IF qry.QueryType = queryTypeTwoColumns
    THEN IF HasSuffix(vals[1], deltaWildcard)
         THEN {[key |-> vals[1], field |-> RateField(vals[1]), text |-> vals[2]]}
         ELSE {}
    ELSE IF qry.QueryType = queryTypeSingleRow
    THEN {[key |-> qry.Columns[i], field |-> RateField(qry.Columns[i]), text |-> vals[i]] :
              i \in DeltaIndexes(qry.Columns)}
    ELSE IF qry.QueryType = queryTypeMultipleRows /\ HasKeyColumn(qry.Columns)
    THEN {[key |-> KeyText(vals, qry.Columns) \o qry.Columns[i],
           field |-> RateField(qry.Columns[i]), text |-> vals[i]] :
              i \in DeltaIndexes(qry.Columns)}
    ELSE {}

\* The event the pass of LoopRows has worked on, as it is after the step.
EventAfter == IF query.QueryType = queryTypeTwoColumns THEN twoColumnEvent' ELSE event'

IsNumber(v) == v.t \in {columnTypeInt, columnTypeFloat}

\* n/d rounded to the nearest integer, halves upwards (n >= 0, d > 0).
RoundHalfUp(n, d) == (2 * n + d) \div (2 * d)

ExpectedRate(curr, prev, seconds) ==
    IF curr > prev THEN RoundHalfUp(curr - prev, seconds) ELSE 0

\* The query LoopRows has last run for, once the loop over the queries has
\* moved on.
QueryEnded == pc = "queries" /\ index > 1 /\ index - 1 # failedAt

LastQuery == Queries[index - 1]

(***************************************************************************)
(* C1: a failing row of a multiple-rows query.                             *)
(***************************************************************************)

MultiFailed == InQuery /\ query.QueryType = queryTypeMultipleRows /\ err # ""

\* C1 as stated: in a multiple-rows query a failing row is logged and the
\* rows after it are still consumed, so with rows left the loop goes on.
C1_Original == (MultiFailed /\ rowsRead < nRows) => pc = "rows"

\* C1, amended: in a multiple-rows query a failing row is logged, yields no
\* event and ends the loop over the rows: no later row of the result set is
\* consumed, nothing more is published and the cache stays as it is until
\* the next query; a row that does not fail leaves the loop running.
C1_FailingRowEndsLoop ==
    [][/\ MultiFailed =>
            /\ pc = "endquery"
            /\ event = NoEvent
            /\ sent = <<>>
            /\ logged # <<>> /\ logged[Len(logged)] = <<"row", index>>
            /\ rowsRead' = rowsRead
            /\ UNCHANGED cacheVars
       /\ (RowStep /\ query.QueryType = queryTypeMultipleRows /\ err' = "") => pc' = "rows"]_vars

\* C1: a row of a multiple-rows query has failed with rows left unread.
C1_Witness == MultiFailed /\ pc = "endquery" /\ rowsRead < nRows

(***************************************************************************)
(* C2: a query that cannot be executed.                                    *)
(***************************************************************************)

\* C2 as stated: a failing query aborts only itself, so when process_server
\* has returned every query of the server has had its turn.
C2_Original == (pc = "servers" /\ server # NoServer) => index > Len(config[server])

\* C2, amended: when executing query i (or enumerating its columns) fails,
\* process_server returns the error: the queries i+1..n of that server are
\* not executed in that polling cycle, and beat goes on with the next server.
C2_FailingQueryEndsServer ==
    [][failedAt # 0 =>
          /\ pc \in {"servers", "select", "returned"}
          /\ index = failedAt
          /\ index' # index => (index' = 1 /\ server' \in pending)
          /\ (pc = "servers" /\ pending # {}) => ENABLED StartServer]_vars

\* C2: a query has failed that is not the last one of its server.
C2_Witness == failedAt # 0 /\ pc = "servers" /\ failedAt < Len(config[server])

(***************************************************************************)
(* C3: cold start.                                                         *)
(***************************************************************************)

\* C3: for every query shape, a delta-marked column observed for a
\* MetricKey with no cache entry stores the value and the query's time as
\* the baseline and adds no field for the column to the event.
C3_ColdStart ==
    [][(RowStep /\ ~row'.scanErr) =>
          \A o \in Observations(query, row'.vals) :
              o.key \notin DOMAIN oldValues =>
                  /\ o.key \in DOMAIN oldValues' /\ oldValues'[o.key] = ColValue(o.text)
                  /\ o.key \in DOMAIN oldValuesAge' /\ oldValuesAge'[o.key] = dtNow
                  /\ o.field \notin DOMAIN EventAfter
                  /\ err' = ""]_vars

\* C3: the only column of a single-row query has been seen for the first
\* time: the baseline is stored and there is no event.
C3_Witness ==
    /\ pc = "endquery"
    /\ query.QueryType = queryTypeSingleRow
    /\ query.Columns = <<ColA>>
    /\ cycle = 1
    /\ ColA \in DOMAIN oldValues /\ oldValues[ColA] = ColValue(row.vals[1])
    /\ oldValuesAge[ColA] = dtNow
    /\ event = NoEvent /\ err = "" /\ nSent = 0

(***************************************************************************)
(* C4: the Integer rate.                                                   *)
(***************************************************************************)

\* C4: an Integer delta column observed as curr at tNow against the cached
\* Integer (prev, tPrev), tNow > tPrev, emits (curr - prev) / (tNow - tPrev)
\* rounded half up when curr > prev and 0 when curr <= prev, never a
\* negative rate; 100 -> 150 over 10 s gives 5, 150 -> 140 gives 0.
C4_IntegerRate ==
    [][/\ (RowStep /\ ~row'.scanErr) =>
            \A o \in Observations(query, row'.vals) :
                (/\ o.key \in DOMAIN oldValues
                 /\ HasTime(o.key)
                 /\ oldValues[o.key].t = columnTypeInt
                 /\ ColValue(o.text).t = columnTypeInt
                 /\ dtNow > oldValuesAge[o.key]) =>
                    /\ o.field \in DOMAIN EventAfter
                    /\ EventAfter[o.field] =
                           IntVal(ExpectedRate(ColValue(o.text).n, oldValues[o.key].n,
                                               dtNow - oldValuesAge[o.key]))
                    /\ EventAfter[o.field].n >= 0
       /\ \A u \in UndefOutcomes :
              /\ IntRate(150, IntVal(100), 10, u) = IntVal(5)
              /\ IntRate(140, IntVal(150), 10, u) = IntVal(0)]_vars

\* C4: 3 -> 8 over 2 seconds has been emitted as 3, 2.5 rounded half up.
C4_Witness ==
    /\ pc = "endquery"
    /\ query.QueryType = queryTypeSingleRow
    /\ query.Columns = <<ColA>>
    /\ row.vals = <<Eight>>
    /\ event # NoEvent
    /\ event[RateField(ColA)] = IntVal(3)

(***************************************************************************)
(* C5: the cache after a rate.                                             *)
(***************************************************************************)

\* C5: when a rate is computed for a numeric delta column whose MetricKey
\* has a cache entry, the entry afterwards holds the current value and the
\* query's time, in the increasing branch and in the reset guard alike.
C5_CacheOverwritten ==
    [][(RowStep /\ ~row'.scanErr) =>
          \A o \in Observations(query, row'.vals) :
              (o.key \in DOMAIN oldValues /\ HasTime(o.key) /\ IsNumber(ColValue(o.text))) =>
                  /\ o.field \in DOMAIN EventAfter
                  /\ oldValues'[o.key] = ColValue(o.text)
                  /\ oldValuesAge'[o.key] = dtNow]_vars

\* C5: the reset guard has emitted 0 and the cache holds the current value
\* and time.
C5_Witness ==
    /\ pc = "endquery"
    /\ query.QueryType = queryTypeSingleRow
    /\ query.Columns = <<ColA>>
    /\ row.vals = <<Three>>
    /\ event # NoEvent
    /\ event[RateField(ColA)] = IntVal(0)
    /\ oldValues[ColA] = IntVal(3)
    /\ oldValuesAge[ColA] = dtNow

(***************************************************************************)
(* C6: empty-event suppression.                                            *)
(***************************************************************************)

\* The name a column's value goes into the event under.
FieldNameOf(name) ==
    IF HasSuffix(name, deltaKeyWildcard) THEN Replace1(name, deltaKeyWildcard, <<>>)
    ELSE RateField(name)

\* Does column i of a scanned row of qry put a value into the event?
Emits(qry, vals, i) ==
    IF qry.QueryType = queryTypeSlaveDelay THEN qry.Columns[i] = columnNameSlaveDelay
    ELSE IF i \notin DeltaIndexes(qry.Columns) THEN TRUE
    ELSE \E o \in Observations(qry, vals) :
             /\ o.field = RateField(qry.Columns[i])
             /\ o.key \in DOMAIN oldValues
             /\ HasTime(o.key)

\* The fields the columns of a scanned row of qry put into the event.
Written(qry, vals) ==
    {FieldNameOf(qry.Columns[i]) : i \in {j \in 1..Len(qry.Columns) : Emits(qry, vals, j)}}

\* A row of the single-row, multiple-rows or slave-delay shape is scanned
\* and its MetricKeys can be derived.
RowBuilt ==
    /\ RowStep
    /\ IsRowShape(query.QueryType)
    /\ ~row'.scanErr
    /\ ~(/\ query.QueryType = queryTypeMultipleRows
         /\ ~HasKeyColumn(query.Columns)
         /\ DeltaIndexes(query.Columns) # {})

\* C6 as stated: a row of the single-row, multiple-rows or slave-delay
\* shape whose columns all emit nothing yields no event and publishes
\* nothing, and every published event has a data field besides timestamp,
\* type and hostname.
C6_Original ==
    [][/\ (RowBuilt /\ Written(query, row'.vals) = {}) => (event' = NoEvent /\ sent' = <<>>)
       /\ sent' # <<>> => DataFields(sent'[1].event) # {}]_vars

\* C6, amended: a row of the single-row, multiple-rows or slave-delay shape
\* is published if and only if one of its columns put a value into the
\* event under a name other than @timestamp and type; otherwise there is no
\* event.  The published event has those fields besides timestamp, type and
\* hostname, and hostname is the server's name: a column that is itself
\* named hostname counts as written, though its value is replaced, so that
\* event has no data field.  A published two-columns event has a data field.
C6_EmptyEventSuppression ==
    [][/\ RowBuilt =>
            IF Written(query, row'.vals) \ {FieldTimestamp, FieldType} = {}
            THEN event' = NoEvent /\ err' = "" /\ sent' = <<>> /\ nSent' = nSent
            ELSE /\ Len(sent') = 1
                 /\ nSent' = nSent + 1
                 /\ DOMAIN sent'[1].event =
                        Written(query, row'.vals) \cup {FieldTimestamp, FieldType, FieldHostname}
                 /\ sent'[1].event[FieldHostname] = StringVal(server)
       /\ (EndStep /\ sent' # <<>>) => DataFields(sent'[1].event) # {}]_vars

\* C6: the only column of a single-row query, a delta column seen for the
\* first time, emitted nothing: no event, nothing published.
C6_Witness ==
    /\ pc = "endquery"
    /\ query.QueryType = queryTypeSingleRow
    /\ DeltaIndexes(query.Columns) = 1..Len(query.Columns)
    /\ rowsRead = 1 /\ ~row.scanErr
    /\ event = NoEvent /\ err = "" /\ sent = <<>> /\ logged = <<>>

(***************************************************************************)
(* C7: the two-columns aggregate.                                          *)
(***************************************************************************)

\* The field a scanned (name, value) row adds to the two-columns event.
AddedField(vals) ==
    IF HasSuffix(vals[1], deltaWildcard) /\ ~(vals[1] \in DOMAIN oldValues /\ HasTime(vals[1]))
    THEN {}
    ELSE {RateField(vals[1])}

\* C7 as stated: a two-columns query execution publishes at most one event,
\* and that after all its rows have been consumed.
C7_Original ==
    (QueryEnded /\ LastQuery.QueryType = queryTypeTwoColumns) =>
        /\ nSent <= 1
        /\ nSent = 1 => rowsRead = nRows

\* C7, amended: a two-columns query execution publishes nothing while its
\* rows are read, each scanned row adding the field it emits, and at most
\* one event when the loop over the rows has ended, which is after the last
\* row or at the first row whose scan fails, the rows behind it left unread;
\* the event is published if and only if it has a data field.
C7_TwoColumnsAggregate ==
    [][/\ (RowStep /\ query.QueryType = queryTypeTwoColumns) =>
            /\ nSent = 0 /\ nSent' = 0 /\ sent' = <<>>
            /\ IF row'.scanErr
               THEN pc' = "endquery" /\ twoColumnEvent' = twoColumnEvent
               ELSE /\ pc' = "rows" /\ err' = ""
                    /\ DataFields(twoColumnEvent') =
                           DataFields(twoColumnEvent) \cup AddedField(row'.vals)
       /\ (EndStep /\ query.QueryType = queryTypeTwoColumns) =>
            /\ pc = "endquery" \/ rowsRead = nRows
            /\ IF DataFields(twoColumnEvent) # {}
               THEN /\ Len(sent') = 1 /\ sent'[1].event = twoColumnEvent
                    /\ nSent' = 1
               ELSE sent' = <<>> /\ nSent' = 0]_vars

\* C7: the aggregate has been published after a row's scan failed, with
\* rows of the result set left unread.
C7_Witness ==
    /\ QueryEnded
    /\ LastQuery.QueryType = queryTypeTwoColumns
    /\ nSent = 1 /\ sent # <<>>
    /\ err = "scan"
    /\ rowsRead < nRows

(***************************************************************************)
(* C8: multi-row keying.                                                   *)
(***************************************************************************)

\* A row of a multiple-rows query with a key column is scanned right after
\* another row of the same result set.
PairStep ==
    /\ RowStep
    /\ query.QueryType = queryTypeMultipleRows
    /\ HasKeyColumn(query.Columns)
    /\ rowsRead >= 1 /\ ~row.scanErr /\ err = ""
    /\ ~row'.scanErr

MetricKeyOf(vals, i) == KeyText(vals, query.Columns) \o query.Columns[i]

\* C8 as stated: two rows of a multiple-rows query with the same key-marked
\* column value and different delta column values have independent
\* MetricKeys: the later row leaves the earlier row's snapshot as it is.
C8_Original ==
    [][PairStep =>
          \A i \in DeltaIndexes(query.Columns) :
              (/\ KeyText(row.vals, query.Columns) = KeyText(row'.vals, query.Columns)
               /\ row.vals[i] # row'.vals[i]) =>
                  /\ oldValues'[MetricKeyOf(row.vals, i)] = oldValues[MetricKeyOf(row.vals, i)]
                  /\ oldValuesAge'[MetricKeyOf(row.vals, i)] =
                         oldValuesAge[MetricKeyOf(row.vals, i)]]_vars

\* C8, amended: the MetricKey of a row of a multiple-rows query is the
\* values of its key-marked columns, concatenated, followed by the delta
\* column's name; the delta value is no part of it.  Two rows whose key
\* values differ are tracked independently, the later leaving the earlier's
\* snapshot as it is; two rows with the same key values share one MetricKey,
\* the later row being rated against the earlier row's snapshot and
\* overwriting it.
C8_MultiRowKeying ==
    [][PairStep =>
          \A i \in DeltaIndexes(query.Columns) :
              /\ MetricKeyOf(row.vals, i) \in DOMAIN oldValues
              /\ MetricKeyOf(row'.vals, i) \in DOMAIN oldValues'
              /\ KeyText(row.vals, query.Columns) # KeyText(row'.vals, query.Columns) =>
                    /\ MetricKeyOf(row.vals, i) # MetricKeyOf(row'.vals, i)
                    /\ oldValues'[MetricKeyOf(row.vals, i)] = oldValues[MetricKeyOf(row.vals, i)]
                    /\ oldValuesAge'[MetricKeyOf(row.vals, i)] =
                           oldValuesAge[MetricKeyOf(row.vals, i)]
              /\ (/\ KeyText(row.vals, query.Columns) = KeyText(row'.vals, query.Columns)
                  /\ IsNumber(ColValue(row'.vals[i]))) =>
                    /\ RateField(query.Columns[i]) \in DOMAIN event'
                    /\ oldValues'[MetricKeyOf(row.vals, i)] = ColValue(row'.vals[i])
                    /\ oldValuesAge'[MetricKeyOf(row.vals, i)] = dtNow]_vars

\* C8: a row with key x and delta value 8 has been rated against the
\* snapshot a row with key x left in the same result set, and has
\* overwritten it.
C8_Witness ==
    /\ pc = "rows"
    /\ query.QueryType = queryTypeMultipleRows
    /\ rowsRead >= 2
    /\ row.vals = <<KeyX, Eight>>
    /\ event # NoEvent
    /\ event[RateField(ColA)].d = 0
    /\ oldValues[KeyX \o ColA] = IntVal(8)
    /\ oldValuesAge[KeyX \o ColA] = dtNow

(***************************************************************************)
(* C9: the missing key.                                                    *)
(***************************************************************************)

\* A multiple-rows query with a delta-marked column and no key-marked one.
KeyMissing ==
    /\ InQuery
    /\ query.QueryType = queryTypeMultipleRows
    /\ ~HasKeyColumn(query.Columns)
    /\ DeltaIndexes(query.Columns) # {}

\* C9 as stated: in such a query every row of the result set fails with the
\* key-derivation error, so when the loop over the rows is left every row
\* has been read.
C9_Original == (KeyMissing /\ pc = "endquery") => rowsRead = nRows

\* C9, amended: for a multiple-rows query with a delta-marked column and no
\* key-marked column, the first row of the result set, whichever row it is,
\* fails with the key-derivation error when its scan succeeds (with the scan
\* error when it does not); the failure is logged and ends the loop over the
\* rows, so no later row is read; no event is published and no cache entry
\* is created or modified.
C9_KeyMissing ==
    [][KeyMissing =>
          /\ \A rw \in RowsOf(query) \ {ScanErrRow}, u \in UndefOutcomes :
                 generateEventFromRow(oldValues, oldValuesAge, rw, query.Columns,
                                      query.QueryType, dtNow, u)
                     = [event |-> NoEvent, oldValues |-> oldValues,
                        oldValuesAge |-> oldValuesAge, err |-> "key"]
          /\ nSent = 0 /\ sent = <<>> /\ sent' = <<>>
          /\ rowsRead <= 1
          /\ rowsRead = 1 =>
                 /\ pc = "endquery"
                 /\ err = (IF row.scanErr THEN "scan" ELSE "key")
                 /\ event = NoEvent
                 /\ logged # <<>> /\ logged[Len(logged)] = <<"row", index>>
                 /\ rowsRead' = rowsRead
          /\ RowStep => rowsRead = 0 /\ pc' = "endquery"
          /\ (RowStep /\ ~row'.scanErr) => err' = "key"
          /\ UNCHANGED cacheVars]_vars

\* C9: the first row of such a query has failed with the key-derivation
\* error and the loop over the rows has been left with rows unread.
C9_Witness ==
    /\ KeyMissing /\ ~row.scanErr /\ err = "key"
    /\ pc = "endquery" /\ rowsRead = 1 /\ nRows >= 2 /\ nSent = 0

(***************************************************************************)
(* C10: single-row and slave-delay queries.                                *)
(***************************************************************************)

IsFirstRowShape(queryType) == queryType \in {queryTypeSingleRow, queryTypeSlaveDelay}

\* C10: a single-row or slave-delay query execution processes the first row
\* of its result set and no other, however many rows there are and whether
\* the row succeeded, failed or was suppressed; it publishes at most one
\* event and no later row touches the cache.
C10_FirstRowOnly ==
    [][/\ (InQuery /\ IsFirstRowShape(query.QueryType)) =>
            /\ rowsRead <= 1 /\ nSent <= 1
            /\ pc = "endquery" <=> rowsRead = 1
            /\ rowsRead = 1 => (rowsRead' = rowsRead /\ UNCHANGED cacheVars)
       /\ (QueryEnded /\ IsFirstRowShape(LastQuery.QueryType)) =>
            /\ rowsRead = (IF nRows = 0 THEN 0 ELSE 1)
            /\ nSent <= 1]_vars

\* C10: the first row of a result set of several rows has been processed
\* and the loop over the rows has been left.
C10_Witness ==
    /\ pc = "endquery"
    /\ IsFirstRowShape(query.QueryType)
    /\ rowsRead = 1
    /\ nRows > 1

(***************************************************************************)
(* C11: the field names of the two-columns shape.                          *)
(***************************************************************************)

\* A (name, value) row of a two-columns query is scanned.
TwoColumnsRow == RowStep /\ query.QueryType = queryTypeTwoColumns /\ ~row'.scanErr

\* The fields the step adds to the two-columns event.
NewFields == DOMAIN twoColumnEvent' \ DOMAIN twoColumnEvent

\* A name that holds the delta wildcard before its end.
NameInside == <<"a">> \o deltaWildcard \o <<"b">>

\* C11 as stated: in the two-columns shape the emitted field name is the
\* text of column 0 as it is, for delta-marked and other names alike.
C11_Original == [][TwoColumnsRow => NewFields \subseteq {row'.vals[1]}]_vars

\* C11, amended: in the two-columns shape the emitted field name is the
\* text of column 0 with its first occurrence of the delta wildcard
\* replaced by _PERSECOND: a delta-marked name a__DELTA is emitted as
\* a_PERSECOND, a name without the wildcard as it is, and a name holding
\* the wildcard before its end is replaced too, though it is no delta
\* column.  The delta key wildcard is not stripped.
C11_TwoColumnsFieldName ==
    [][/\ TwoColumnsRow =>
            /\ NewFields \subseteq {Replace1(row'.vals[1], deltaWildcard, PerSecond)}
            /\ AddedField(row'.vals) # {} =>
                   /\ Replace1(row'.vals[1], deltaWildcard, PerSecond) \in DOMAIN twoColumnEvent'
                   /\ twoColumnEvent'[Replace1(row'.vals[1], deltaWildcard, PerSecond)].t
                          = ColValue(row'.vals[2]).t
       /\ DOMAIN appendRowToEvent(NoEvent, oldValues, oldValuesAge,
                                  [vals |-> <<NameInside, Three>>, scanErr |-> FALSE],
                                  clock, "MinInt64").event
              = {<<"a">> \o PerSecond \o <<"b">>}
       /\ DOMAIN appendRowToEvent(NoEvent, oldValues, oldValuesAge,
                                  [vals |-> <<ColK, Three>>, scanErr |-> FALSE],
                                  clock, "MinInt64").event
              = {<<"k">> \o PerSecond \o <<"K", "E", "Y">>}]_vars

\* C11: a row named a__DELTA has put the field a_PERSECOND into the
\* two-columns event.
C11_Witness ==
    /\ pc = "rows"
    /\ query.QueryType = queryTypeTwoColumns
    /\ ~row.scanErr /\ rowsRead >= 1
    /\ row.vals[1] = ColA
    /\ (<<"a">> \o PerSecond) \in DOMAIN twoColumnEvent
    /\ ColA \notin DOMAIN twoColumnEvent

(***************************************************************************)
(* C12: the typing of a cell.                                              *)
(***************************************************************************)

DecChars == {"0", "1", "2", "3", "4", "5", "6", "7", "8", "9"}

OctChars == {"0", "1", "2", "3", "4", "5", "6", "7"}

HexChars == DecChars \cup {"a", "b", "c", "d", "e", "f", "A", "B", "C", "D", "E", "F"}

\* The text without its sign.
Body(t) == IF t # <<>> /\ t[1] \in {"+", "-"} THEN Tail(t) ELSE t

Negative(t) == t # <<>> /\ t[1] = "-"

MadeOf(s, chars) == s # <<>> /\ \A i \in 1..Len(s) : s[i] \in chars

\* The value of a string of digits in a base.
RECURSIVE ValueIn(_, _)
ValueIn(s, base) ==
    IF s = <<>> THEN 0
    ELSE ValueIn(SubSeq(s, 1, Len(s) - 1), base) * base + DigitOf(s[Len(s)])

\* A signed integer in base 10.
IsBase10(t) == MadeOf(Body(t), DecChars)

\* An integer literal whose prefix gives its base: 0x for 16, 0 for 8.
IsHexLiteral(t) ==
    Len(Body(t)) >= 3 /\ Body(t)[1] = "0" /\ Body(t)[2] \in {"x", "X"}
        /\ MadeOf(Drop(Body(t), 2), HexChars)

IsOctLiteral(t) == Len(Body(t)) >= 1 /\ Body(t)[1] = "0" /\ MadeOf(Body(t), OctChars)

IsDecLiteral(t) == IsBase10(t) /\ Body(t)[1] # "0"

LiteralValue(t) ==
    (IF Negative(t) THEN 0 - 1 ELSE 1) *
        (IF IsHexLiteral(t) THEN ValueIn(Drop(Body(t), 2), 16)
         ELSE IF IsOctLiteral(t) THEN ValueIn(Body(t), 8)
         ELSE ValueIn(Body(t), 10))

\* A decimal numeral: digits with one point at most, one digit at least.
IsDecimalNumeral(t) ==
    /\ MadeOf(Body(t), DecChars \cup {"."})
    /\ Cardinality({i \in 1..Len(Body(t)) : Body(t)[i] = "."}) <= 1
    /\ \E i \in 1..Len(Body(t)) : Body(t)[i] # "."

Typed == call.f = "ColValue" /\ result.done

\* C12 as stated: a cell is Integer exactly when its text is a valid
\* base-10 integer, with that value, and a text that is no base-10 integer
\* is never Integer.
C12_Original ==
    Typed =>
        /\ result.v.t = columnTypeInt <=> IsBase10(call.text)
        /\ IsBase10(call.text) =>
               result.v.n = (IF Negative(call.text) THEN 0 - 1 ELSE 1) * ValueIn(Body(call.text), 10)

\* A text of signs, digits, the point and the letters x and f: no
\* underscore, no exponent, no word.
PlainText(t) == \A i \in 1..Len(t) : t[i] \in {"0", "1", "8", "-", ".", "x", "f"}

\* C12, what the code does instead: typing is total and prioritised, but on
\* a text of signs, digits, point, x and f a cell is Integer exactly when
\* its text is an optionally signed integer literal whose base comes from
\* its prefix, 0x for hexadecimal, a leading 0 for octal, decimal otherwise,
\* and its value is read in that base: 010 is Integer 8, 0xf is Integer 15,
\* and 08, no octal numeral, is Float 8.  Otherwise it is Float when the
\* text is a decimal numeral, otherwise String with the text as it is.
\* Beyond those texts, underscores between digits are skipped, an exponent,
\* a hexadecimal float, inf and nan are Floats, and a float beyond the
\* float64 range is a String.
C12_ValueTyping ==
    Typed =>
        /\ result.v.t \in {columnTypeInt, columnTypeFloat, columnTypeString}
        /\ PlainText(call.text) =>
             /\ result.v.t = columnTypeInt <=>
                    (IsHexLiteral(call.text) \/ IsOctLiteral(call.text) \/ IsDecLiteral(call.text))
             /\ result.v.t = columnTypeInt => result.v = IntVal(LiteralValue(call.text))
             /\ result.v.t = columnTypeFloat <=>
                    (IsDecimalNumeral(call.text) /\ result.v.t # columnTypeInt)
        /\ result.v.t = columnTypeString => result.v = StringVal(call.text)
        /\ call.text = <<"0", "1", "0">> => result.v = IntVal(8)
        /\ call.text = <<"0", "x", "f">> => result.v = IntVal(15)
        /\ call.text = <<"0", "8">> => result.v = FloatVal(8, 1)
        /\ call.text = <<"1", ".", "8">> => result.v = FloatVal(9, 5)
        /\ call.text = <<"1", "8">> => result.v = IntVal(18)
        /\ call.text = <<"1", "_", "0">> => result.v = IntVal(10)
        /\ call.text = <<"0", "x", "_", "f">> => result.v = IntVal(15)
        /\ call.text = <<"1", "_", "0", "0", "0">> => result.v = IntVal(1000)
        /\ call.text = <<"0", "_", "8">> => result.v = FloatVal(8, 1)
        /\ call.text = <<"1", "e", "1">> => result.v = FloatVal(10, 1)
        /\ call.text = <<"1", "e", "-", "2">> => result.v = FloatVal(1, 100)
        /\ call.text = <<"0", "x", "1", "p", "-", "2">> => result.v = FloatVal(1, 4)
        /\ call.text = <<"0", "x", "e">> => result.v = IntVal(14)
        /\ call.text = <<"i", "n", "f">> => result.v = PosInf
        /\ call.text = <<"-", "i", "n", "f">> => result.v = NegInf
        /\ call.text = <<"n", "a", "n">> => result.v = NaN
        /\ call.text = <<"+", "n", "a", "n">> => result.v.t = columnTypeString
        /\ call.text = <<"-", "0", ".", "0">> => result.v = FloatVal(0, 0 - 1)
        /\ call.text = <<"1", "e", "4", "0", "0">> => result.v.t = columnTypeString
        /\ call.text = <<"1", "e", "-", "4", "0", "0">> => result.v = FloatVal(0, 1)

(***************************************************************************)
(* C14: the rounding rule.                                                 *)
(***************************************************************************)

Rounded == call.f = "roundF2I" /\ result.done

RoundedFrom(n, d) == Rounded /\ call.num = n /\ call.den = d

\* C14 as stated: 5.5 rounds to 6, 5.49 rounds to 5 and -1.5 rounds to -1.
C14_Original ==
    /\ RoundedFrom(11, 2) => result.v = 6
    /\ RoundedFrom(549, 100) => result.v = 5
    /\ RoundedFrom(0 - 3, 2) => result.v = 0 - 1

\* C14, what the code does instead: a quotient that is not negative is
\* rounded to the nearest integer, halves upwards; a negative quotient is
\* always rounded down, its fractional part being negative and so below
\* 0.5: -1.5 gives -2, and -0.25 gives -1.
C14_RoundingAsCoded ==
    Rounded =>
        result.v = (IF call.num >= 0 THEN RoundHalfUp(call.num, call.den)
                    ELSE 0 - (((0 - call.num) + call.den - 1) \div call.den))

(***************************************************************************)
(* C13: shutdown.                                                          *)
(***************************************************************************)

\* Stop has signalled: done is closed.
Signalled == stop = "done"

\* C13 as stated: once Stop has signalled, the cycle in flight runs to its
\* end and no further polling cycle is started before Run returns.
C13_Original == [][Signalled => cycle' = cycle]_vars

\* C13, what the code does instead: once Stop has signalled, the cycle in
\* flight runs to its end, step by step as without Stop; whenever Run is
\* back at its select it may return, and it may as well take a tick that is
\* pending and start another cycle; Run returns from its select only.  A
\* second Stop ends the program with a panic wherever Run is, and so does a
\* Stop that comes before Run has connected, which signals nothing.
C13_ShutdownAsCoded ==
    /\ [][Signalled =>
            /\ pc \notin {"select", "returned"} => pc' # "returned"
            /\ pc = "select" => ENABLED Return
            /\ (pc = "select" /\ cycle < MaxCycles) => ENABLED Tick
            /\ pc # "panicked" => ENABLED StopAgain
            /\ pc = "returned" =>
                   /\ pc' \in {"returned", "panicked"}
                   /\ UNCHANGED <<cycle, oldValues, oldValuesAge, sent>>]_vars
    /\ [][(pc = "new" /\ stop = "idle") => (pc' = "panicked" => stop' = "idle")]_vars
    /\ [][pc = "panicked" => UNCHANGED vars]_vars

(***************************************************************************)
(* C15: one MetricKey, one counter.                                        *)
(***************************************************************************)

Keyed == call.f = "getKeyFromRow" /\ result.done

\* The MetricKey of the delta column ColA of a row of KeyColumns.
MetricKeyFor(values) == getKeyFromRow(values, KeyColumns) \o ColA

\* C15 as stated: two rows of one query whose tuples of key-column values
\* differ never have the same MetricKey for a column.
C15_Original ==
    Keyed => \A other \in KeyCalls :
                 other.values # call.values => MetricKeyFor(other.values) # result.v \o ColA

\* C15, what the code does instead: the key is the concatenation of the
\* key-column values with nothing between them, so two rows share a
\* MetricKey exactly when their concatenations are the same text, as for
\* ("a", "bc") and ("ab", "c").
C15_KeyAsCoded ==
    Keyed =>
        /\ result.v = call.values[1] \o call.values[2]
        /\ \A other \in KeyCalls :
               MetricKeyFor(other.values) = result.v \o ColA
                   <=> other.values[1] \o other.values[2] = call.values[1] \o call.values[2]
        /\ call.values = <<<<"a">>, <<"b", "c">>, Three>> =>
               MetricKeyFor(<<<<"a", "b">>, <<"c">>, Three>>) = result.v \o ColA

(***************************************************************************)
(* C16: the cache is never reset.                                          *)
(***************************************************************************)

\* The step observes the MetricKey k: it scans a row with a delta column of
\* that key.
Observes(k) ==
    /\ RowStep
    /\ ~row'.scanErr
    /\ \E o \in Observations(query, row'.vals) : o.key = k

\* C16: over cycles, queries, failed rows and failed queries the cache is
\* never reset and loses no entry: the set of cached MetricKeys only grows,
\* and the value and the age under a key change only in a step that
\* observes that key.
C16_CacheOnlyGrows ==
    [][/\ DOMAIN oldValues \subseteq DOMAIN oldValues'
       /\ DOMAIN oldValuesAge \subseteq DOMAIN oldValuesAge'
       /\ DOMAIN oldValues' = DOMAIN oldValuesAge'
       /\ \A k \in DOMAIN oldValues :
              (oldValues'[k] # oldValues[k] \/ oldValuesAge'[k] # oldValuesAge[k]) => Observes(k)
       /\ \A k \in DOMAIN oldValues' \ DOMAIN oldValues : Observes(k)]_vars

\* C16: in the second cycle the snapshot the first cycle took for key x is
\* still there while a snapshot for key y has been added.
C16_Witness ==
    /\ cycle = 2
    /\ InQuery
    /\ (KeyX \o ColA) \in DOMAIN oldValues
    /\ oldValuesAge[KeyX \o ColA] < dtNow
    /\ (KeyY \o ColA) \in DOMAIN oldValues
    /\ oldValuesAge[KeyY \o ColA] = dtNow

(***************************************************************************)
(* C17: the cache key has no server in it.                                 *)
(***************************************************************************)

\* The second of two servers is being processed in the first cycle.
SecondServer == cycle = 1 /\ Cardinality(DOMAIN config) = 2 /\ pending = {}

\* C17: the cache key does not hold the server: going from one server to
\* the next leaves the cache as it is, a row creates entries under the keys
\* of its observations only, and when the second of two servers with the
\* same delta column finds the first server's snapshot in the first cycle,
\* its own first observation is no cold start: it emits the rate against
\* the first server's value and overwrites the snapshot.
C17_ServersShareSnapshots ==
    [][/\ (pc = "servers" /\ pc' = "queries") => UNCHANGED cacheVars
       /\ (RowStep /\ ~row'.scanErr) =>
              DOMAIN oldValues' \ DOMAIN oldValues
                  \subseteq {o.key : o \in Observations(query, row'.vals)}
       /\ (RowStep /\ ~row'.scanErr /\ SecondServer) =>
              \A o \in Observations(query, row'.vals) :
                  o.key \in DOMAIN oldValues =>
                      /\ HasTime(o.key) /\ oldValuesAge[o.key] < dtNow
                      /\ o.field \in DOMAIN event'
                      /\ event'[o.field] =
                             IntVal(ExpectedRate(ColValue(o.text).n, oldValues[o.key].n,
                                                 dtNow - oldValuesAge[o.key]))
                      /\ oldValues'[o.key] = ColValue(o.text)
                      /\ oldValuesAge'[o.key] = dtNow]_vars

\* C17: in the first cycle the second server's first row, with the value
\* 8, has been rated against the snapshot 3 the first server left.
C17_Witness ==
    /\ SecondServer
    /\ pc = "endquery"
    /\ row.vals = <<Eight>>
    /\ event # NoEvent
    /\ event[RateField(ColA)].n > 0
    /\ sent # <<>>
    /\ sent[1].event[FieldHostname] = StringVal(server)

(***************************************************************************)
(* C18: the divisor of the rate.                                           *)
(***************************************************************************)

\* The observation o of the step computes a rate: its value is a number and
\* its MetricKey has a snapshot with a time.
Rated(o) == o.key \in DOMAIN oldValues /\ HasTime(o.key) /\ IsNumber(ColValue(o.text))

\* C18 as stated: whenever a rate is computed for a MetricKey, the time
\* elapsed since the cached snapshot is strictly positive; no MetricKey is
\* observed twice with the same query timestamp.
C18_Original ==
    [][(RowStep /\ ~row'.scanErr) =>
          \A o \in Observations(query, row'.vals) :
              Rated(o) => dtNow > oldValuesAge[o.key]]_vars

(***************************************************************************)
(* C19: the type of the cached value.                                      *)
(***************************************************************************)

\* C19 as stated: a numeric rate is emitted only against a cached value of
\* the type of the current value; when the type has changed since the
\* snapshot, no rate is derived from a previous value of 0 put in its place.
\* The case is taken with a positive elapsed time, where the divisor of C18
\* plays no part.
C19_Original ==
    [][(RowStep /\ ~row'.scanErr) =>
          \A o \in Observations(query, row'.vals) :
              (/\ Rated(o)
               /\ dtNow > oldValuesAge[o.key]
               /\ oldValues[o.key].t # ColValue(o.text).t) =>
                  o.field \notin DOMAIN EventAfter]_vars

(***************************************************************************)
(* C20: publishing and Stop.                                               *)
(***************************************************************************)

\* C20 as stated: no event is handed to the publishing client after Stop
\* has closed it.
C20_Original == \A i \in 1..Len(sent) : ~sent[i].closed

====
